---- MODULE Spec2Model ----
(***************************************************************************)
(* Model of the GO sentence rules of wb_genedescriptions                   *)
(* (src/descriptions_rules.py, src/genedescriptions/data_fetcher.py).      *)
(*                                                                         *)
(* Python strings are sequences of one-character strings, so that          *)
(* concatenation, indexing, replace and strip are computed as the code     *)
(* computes them.  Ontology terms are numbered; a term's name is a value   *)
(* distinct from its id.                                                   *)
(***************************************************************************)
EXTENDS Integers, Sequences, FiniteSets, TLC

VARIABLES
    pc,                 \* position of the modelled call
    prefix,             \* compose_go_sentence: prefix
    go_term_names,      \* compose_go_sentence: go_term_names
    postfix,            \* compose_go_sentence: postfix
    text,               \* compose_go_sentence: returned text
    postfix_phrases,    \* merge_postfix_phrases: postfix_phrases
    merged_postfix,     \* merge_postfix_phrases: returned phrase
    go_ontology,        \* the ontology: each term's set of parents
    go_terms_names,     \* term reduction: the list of term names
    term_ids_dict,      \* term reduction: term name -> term id
    go_id,              \* get_all_go_parent_names: the starting term
    parent_names,       \* get_all_go_parent_names: returned names
    term_ids_no_parents,    \* parent pruning: returned ids
    term_ids_no_parents_2,  \* parent pruning applied to its own result
    go_terms_exclusion_list,    \* DataFetcher.go_terms_exclusion_list
    annotations,        \* load_go_data: the term ids of the annotation file
    min_distance_from_root,     \* common-ancestor merge: parameter
    min_number_of_terms,        \* common-ancestor merge: parameter
    term_paths,         \* common-ancestor merge: term id -> remaining paths
    ancestor_paths,     \* common-ancestor merge: outermost ancestor -> paths
    term_paths_copy,    \* common-ancestor merge: work list of the current term
    term_idx,           \* common-ancestor merge: position of the step 2 loop
    final_terms_set,    \* common-ancestor merge: returned ids
    first_result,       \* the ids returned by an earlier call on the same terms
    relationship,       \* the ontology: each term's part_of relationship targets
    go_parents,         \* GOTerm.get_parents (as load_go_data patches it): returned
    paths_to_return,    \* get_all_term_paths_to_root: returned paths
    go_data,            \* load_go_data: the annotations of the gene in the file
    go_annotations,     \* generate_go_sentences: go_annotations
    evidence_groups_priority_list,  \* the caller's list of evidence groups
    go_prepostfix_special_cases_sent_map,   \* generate_go_sentences: parameter
    remove_parent_terms,            \* generate_go_sentences: parameter
    merge_num_terms_threshold,      \* generate_go_sentences: parameter
    merge_min_distance_from_root,   \* generate_go_sentences: parameter
    hash_order,         \* the iteration order of this process's sets
    sentences_collection,   \* generate_go_sentences: returned value
    raised,             \* whether a call has raised an exception
    go_aspect,          \* get_sentences: go_aspect
    keep_only_best_group,           \* get_sentences: parameter
    merge_groups_with_same_prefix,  \* get_sentences: parameter
    sentences,          \* get_sentences: returned list
    subsets,            \* find_set_covering: subsets
    value,              \* find_set_covering: value, <<v>> or <<>> for None
    max_num_subsets,    \* find_set_covering: max_num_subsets
    set_covering,       \* find_set_covering: <<selection>> or <<>> for None
    dataset,            \* get_annotations: dataset[geneid]
    include_obsolete,   \* get_annotations: parameter
    include_negative_results,   \* get_annotations: parameter
    priority_list,      \* get_annotations: parameter
    selected_annotations,   \* get_annotations: returned list
    call_stack,         \* the recursive walks: the calls still to be made
    terms_set,          \* parent pruning: the set the ancestors are discarded from
    name_idx            \* parent pruning: position of the loop over the names

textVars == <<prefix, go_term_names, postfix, text, postfix_phrases, merged_postfix>>

pruneVars == <<go_id, parent_names, term_ids_no_parents, term_ids_no_parents_2>>

mergeVars == <<min_distance_from_root, min_number_of_terms, term_paths, ancestor_paths,
               term_paths_copy, term_idx, final_terms_set, first_result>>

ontoVars == <<go_ontology, go_terms_names, term_ids_dict, go_terms_exclusion_list,
              annotations>>

walkVars == <<relationship, go_parents, paths_to_return>>

callVars == <<go_aspect, keep_only_best_group, merge_groups_with_same_prefix, sentences>>

genVars == <<go_data, go_annotations, evidence_groups_priority_list,
             go_prepostfix_special_cases_sent_map, remove_parent_terms,
             merge_num_terms_threshold, merge_min_distance_from_root, hash_order,
             sentences_collection, raised, callVars>>

coverVars == <<subsets, value, max_num_subsets, set_covering>>

fetchVars == <<dataset, include_obsolete, include_negative_results, priority_list,
               selected_annotations>>

stackVars == <<call_stack, terms_set, name_idx>>

vars == <<pc, textVars, pruneVars, mergeVars, ontoVars, walkVars, genVars, coverVars,
          fetchVars, stackVars>>

(***************************************************************************)
(* Bounds                                                                  *)
(***************************************************************************)
MaxLen == 2         \* longest prefix / postfix of compose_go_sentence
MaxTerms == 3       \* longest term list of compose_go_sentence
MaxPhraseLen == 3   \* longest postfix phrase of merge_postfix_phrases
MaxPhrases == 2     \* longest phrase list of merge_postfix_phrases
MaxNode == 4        \* number of terms of the ontology, ancestors and pruning
MaxMergeNode == 3   \* number of terms of the ontology, common-ancestor merge
MaxInput == 3       \* longest list of input terms
MaxDist == 2        \* largest min_distance_from_root
MaxMinTerms == 2    \* largest min_number_of_terms
MaxPartOfNode == 3  \* number of terms of the ontology with part_of relationships
MaxGenNode == 2     \* number of terms of the ontology, annotations from the file
MaxSentNode == 3    \* number of terms of the ontology, sentence retrieval
MaxThreshold == 1   \* merge_num_terms_threshold, when it is not 0
MaxGenDist == 1     \* merge_min_distance_from_root, when it is not 0
MaxCoverSets == 3   \* find_set_covering: number of subsets
MaxValue == 2       \* find_set_covering: largest weight
MaxNumSubsets == 3  \* find_set_covering: largest max_num_subsets
MaxFetched == 2     \* get_annotations: number of annotations of the gene
MaxSpecialNode == 3 \* number of terms, aggregation with special cases
MaxWalkNode == 3    \* number of terms of the ontology, step-by-step walks

Chars == {"a", "b", " "}

RECURSIVE StringsOfLen(_)
StringsOfLen(n) ==
    IF n = 0 THEN {<<>>}
    ELSE {<<c>> \o s : c \in Chars, s \in StringsOfLen(n - 1)}

StringsUpTo(n) == UNION {StringsOfLen(k) : k \in 0..n}

TermTexts == {<<"a">>, <<"b", "b">>}

RECURSIVE ListsOfLen(_, _)
ListsOfLen(S, n) ==
    IF n = 0 THEN {<<>>}
    ELSE {<<x>> \o l : x \in S, l \in ListsOfLen(S, n - 1)}

NonEmptyListsUpTo(S, n) == UNION {ListsOfLen(S, k) : k \in 1..n}

(***************************************************************************)
(* Python string helpers                                                   *)
(***************************************************************************)
\* sep.join(parts)
RECURSIVE JoinStr(_, _)
JoinStr(sep, parts) ==
    IF parts = <<>> THEN <<>>
    ELSE IF Len(parts) = 1 THEN parts[1]
    ELSE parts[1] \o sep \o JoinStr(sep, Tail(parts))

\* s.replace(pat, ""): every non-overlapping occurrence, left to right
RECURSIVE RemoveAll(_, _)
RemoveAll(s, pat) ==
    IF pat = <<>> \/ Len(s) < Len(pat) THEN s
    ELSE IF SubSeq(s, 1, Len(pat)) = pat
         THEN RemoveAll(SubSeq(s, Len(pat) + 1, Len(s)), pat)
         ELSE <<s[1]>> \o RemoveAll(Tail(s), pat)

\* s.strip()
RECURSIVE Strip(_)
Strip(s) ==
    IF s = <<>> THEN s
    ELSE IF s[1] = " " THEN Strip(Tail(s))
    ELSE IF s[Len(s)] = " " THEN Strip(SubSeq(s, 1, Len(s) - 1))
    ELSE s

\* len(s.split(" "))
SplitCount(s) == 1 + Cardinality({i \in 1..Len(s) : s[i] = " "})

\* inflect.engine().plural(s) on a regular noun: the word gets an "s", the
\* whitespace around it is kept, a text without a word is returned as it is
Plural(s) ==
    IF Strip(s) = <<>> THEN s
    ELSE LET last == CHOOSE i \in 1..Len(s) :
                        s[i] # " " /\ \A j \in (i + 1)..Len(s) : s[j] = " "
         IN SubSeq(s, 1, last) \o <<"s">> \o SubSeq(s, last + 1, Len(s))

(***************************************************************************)
(* compose_go_sentence                                                     *)
(***************************************************************************)
\* a plausible slip: the postfix is glued to the last term, no separator
compose_no_separator(pre, names, post) ==
    LET prefix1 == pre \o <<" ">>
    IN  IF Len(names) > 2
        THEN prefix1 \o JoinStr(<<",", " ">>, SubSeq(names, 1, Len(names) - 1))
                \o <<",", " ", "a", "n", "d", " ">> \o names[Len(names)] \o post
        ELSE IF Len(names) > 1
        THEN prefix1 \o JoinStr(<<" ", "a", "n", "d", " ">>, names) \o post
        ELSE prefix1 \o names[1] \o post

\* a plausible slip: the postfix is left out of the text
compose_drop_postfix(pre, names, post) ==
    LET prefix1 == pre \o <<" ">>
    IN  IF Len(names) > 2
        THEN prefix1 \o JoinStr(<<",", " ">>, SubSeq(names, 1, Len(names) - 1))
                \o <<",", " ", "a", "n", "d", " ">> \o names[Len(names)]
        ELSE IF Len(names) > 1
        THEN prefix1 \o JoinStr(<<" ", "a", "n", "d", " ">>, names)
        ELSE prefix1 \o names[1]

compose_go_sentence(pre, names, post) ==
    LET prefix1 == pre \o <<" ">>
        postfix1 == IF post # <<>> THEN <<" ">> \o post ELSE post
    IN  IF Len(names) > 2
        THEN prefix1 \o JoinStr(<<",", " ">>, SubSeq(names, 1, Len(names) - 1))
                \o <<",", " ", "a", "n", "d", " ">> \o names[Len(names)] \o postfix1
        ELSE IF Len(names) > 1
        THEN prefix1 \o JoinStr(<<" ", "a", "n", "d", " ">>, names) \o postfix1
        ELSE prefix1 \o names[1] \o postfix1

(***************************************************************************)
(* GOSentencesCollection.merge_postfix_phrases                             *)
(***************************************************************************)
\* sorted(zip(phrases, lengths), key=length)[0][0]: the sort is stable, so
\* the first phrase of minimal length
shortest_phrase(phrases) ==
    LET i == CHOOSE i \in 1..Len(phrases) :
                /\ \A j \in 1..Len(phrases) : Len(phrases[i]) <= Len(phrases[j])
                /\ \A j \in 1..(i - 1) : Len(phrases[j]) > Len(phrases[i])
    IN  phrases[i]

\* the letters of the shortest phrase that every phrase has at the same
\* position from the start, up to the first disagreement
first_part(phrases) ==
    LET sh == shortest_phrase(phrases)
        agree(idx) == \A k \in 1..Len(phrases) : phrases[k][idx] = sh[idx]
        n == CHOOSE n \in 0..Len(sh) :
                /\ \A idx \in 1..n : agree(idx)
                /\ n < Len(sh) => ~agree(n + 1)
    IN  SubSeq(sh, 1, n)

\* the same from the end
last_part(phrases) ==
    LET sh == shortest_phrase(phrases)
        agree(idx) == \A k \in 1..Len(phrases) :
                          phrases[k][Len(phrases[k]) - idx] = sh[Len(sh) - idx]
        n == CHOOSE n \in 0..Len(sh) :
                /\ \A idx \in 0..(n - 1) : agree(idx)
                /\ n < Len(sh) => ~agree(n)
    IN  SubSeq(sh, Len(sh) - n + 1, Len(sh))

merge_many(phrases) ==
    LET first == first_part(phrases)
        last == last_part(phrases)
        new_phrases == [k \in 1..Len(phrases) |->
                            RemoveAll(RemoveAll(phrases[k], first), last)]
        last1 == IF SplitCount(Strip(last)) = 1 THEN Plural(last) ELSE last
    IN  IF Len(new_phrases) > 2
        THEN first \o JoinStr(<<",", " ">>, SubSeq(new_phrases, 1, Len(new_phrases) - 1))
                \o <<",", " ", "a", "n", "d", " ">> \o new_phrases[Len(new_phrases)] \o last1
        ELSE IF Len(new_phrases) > 1
        THEN first \o JoinStr(<<" ", "a", "n", "d", " ">>, new_phrases) \o last1
        ELSE first \o new_phrases[1] \o last1

\* a plausible slip: the guard lets a single phrase into the merge
merge_postfix_phrases_always(phrases) == merge_many(phrases)

merge_postfix_phrases(phrases) ==
    IF Len(phrases) > 1 THEN merge_many(phrases) ELSE phrases[1]

(***************************************************************************)
(* The ontology (goatools GODag as load_go_data builds it): terms 1..n,    *)
(* each with a set of parents among the terms of smaller number, so the    *)
(* graph is acyclic.  A term without parents is a root.                    *)
(***************************************************************************)
Ontologies(n) ==
    {o \in [1..n -> SUBSET (1..n)] : \A t \in 1..n : o[t] \subseteq 1..(t - 1)}

\* the name of a term: a value distinct from its id
NameOf(id) == <<"term", ToString(id)>>

SetMax(S) == CHOOSE m \in S : \A x \in S : x <= m

\* GOTerm.depth: 0 for a root, else one more than the deepest parent
RECURSIVE Depth(_, _)
Depth(onto, id) ==
    IF onto[id] = {} THEN 0
    ELSE 1 + SetMax({Depth(onto, p) : p \in onto[id]})

\* go_ontology.query_term(term_id)
query_term(onto, id) ==
    [id |-> id, name |-> NameOf(id), depth |-> Depth(onto, id), parents |-> onto[id]]

\* lists without repetition
DistinctListsUpTo(S, n) ==
    {l \in NonEmptyListsUpTo(S, n) : \A i, j \in 1..Len(l) : i # j => l[i] # l[j]}

Range(l) == {l[i] : i \in 1..Len(l)}

\* {name: id} for a list of term ids
DictOf(ids) == [name \in {NameOf(i) : i \in ids} |-> CHOOSE i \in ids : NameOf(i) = name]

(***************************************************************************)
(* get_all_go_parent_names, as the set of the names in the returned list   *)
(***************************************************************************)
\* a plausible slip: the root test is left out
RECURSIVE get_all_go_parent_names_with_roots(_, _)
get_all_go_parent_names_with_roots(id, onto) ==
    UNION {{query_term(onto, parent).name}
                \cup get_all_go_parent_names_with_roots(parent, onto) :
           parent \in query_term(onto, id).parents}

RECURSIVE get_all_go_parent_names(_, _)
get_all_go_parent_names(id, onto) ==
    UNION {IF query_term(onto, parent).parents # {}
           THEN {query_term(onto, parent).name} \cup get_all_go_parent_names(parent, onto)
           ELSE {} :
           parent \in query_term(onto, id).parents}

(***************************************************************************)
(* get_all_term_paths_to_root                                              *)
(***************************************************************************)
\* a plausible slip: the depth test is applied to the ancestors only, the
\* starting term is always put on the path
RECURSIVE get_all_term_paths_to_root_from_term(_, _, _, _)
get_all_term_paths_to_root_from_term(id, onto, min_dist, previous_path) ==
    LET term_properties == query_term(onto, id)
    IN  IF term_properties.depth >= min_dist \/ previous_path = <<>>
        THEN LET new_path == Append(previous_path, term_properties.id)
             IN  IF term_properties.parents # {}
                 THEN UNION {get_all_term_paths_to_root_from_term(parent, onto, min_dist,
                                                                  new_path) :
                             parent \in term_properties.parents}
                 ELSE {new_path}
        ELSE {previous_path}

\* a plausible slip: the depth test is strict
RECURSIVE get_all_term_paths_to_root_strict(_, _, _, _)
get_all_term_paths_to_root_strict(id, onto, min_dist, previous_path) ==
    LET term_properties == query_term(onto, id)
    IN  IF term_properties.depth > min_dist
        THEN LET new_path == Append(previous_path, term_properties.id)
             IN  IF term_properties.parents # {}
                 THEN UNION {get_all_term_paths_to_root_strict(parent, onto, min_dist,
                                                               new_path) :
                             parent \in term_properties.parents}
                 ELSE {new_path}
        ELSE {previous_path}

RECURSIVE get_all_term_paths_to_root(_, _, _, _)
get_all_term_paths_to_root(id, onto, min_dist, previous_path) ==
    LET term_properties == query_term(onto, id)
    IN  IF term_properties.depth >= min_dist
        THEN LET new_path == Append(previous_path, term_properties.id)
             IN  IF term_properties.parents # {}
                 THEN UNION {get_all_term_paths_to_root(parent, onto, min_dist, new_path) :
                             parent \in term_properties.parents}
                 ELSE {new_path}
        ELSE {previous_path}

(***************************************************************************)
(* get_term_ids_without_parents_from_terms_names                           *)
(***************************************************************************)
\* a plausible slip: the function returns what its docstring announces, the
\* parents that have been removed
get_term_ids_removed_parents(names, dict, onto) ==
    LET removed == UNION {get_all_go_parent_names(dict[names[i]], onto) :
                          i \in 1..Len(names)}
    IN  {dict[term] : term \in Range(names) \cap removed}

\* a plausible slip: every ancestor is discarded, the root terms too
get_term_ids_without_parents_all_ancestors(names, dict, onto) ==
    LET go_terms_set == Range(names) \ UNION {
            get_all_go_parent_names_with_roots(dict[names[i]], onto) : i \in 1..Len(names)}
    IN  {dict[term] : term \in go_terms_set}

get_term_ids_without_parents_from_terms_names(names, dict, onto) ==
    LET go_terms_set == Range(names) \ UNION {
            get_all_go_parent_names(dict[names[i]], onto) : i \in 1..Len(names)}
    IN  {dict[term] : term \in go_terms_set}

(***************************************************************************)
(* get_merged_term_ids_by_common_ancestor_from_term_names                  *)
(***************************************************************************)
\* a plausible slip: >= in the place of >
merge_attempted_from_threshold(names, min_terms) == Len(names) >= min_terms

\* the guard of the merge
merge_attempted(names, min_terms) == Len(names) > min_terms

\* step 1: term_paths, the paths of more than one term of each input term
step1_term_paths(names, dict, onto, min_dist) ==
    [t \in DOMAIN onto |->
        IF t \in {dict[names[i]] : i \in 1..Len(names)}
        THEN {path \in get_all_term_paths_to_root(t, onto, min_dist, <<>>) : Len(path) > 1}
        ELSE {}]

\* step 1: ancestor_paths, the same paths by their last term.  The code keeps
\* a list for each ancestor; only membership in it is ever read.
step1_ancestor_paths(names, dict, onto, min_dist) ==
    LET tp == step1_term_paths(names, dict, onto, min_dist)
    IN  [a \in DOMAIN onto |->
            {path \in UNION {tp[t] : t \in DOMAIN onto} : path[Len(path)] = a}]

\* a plausible slip: the related paths stay in term_paths
discard_paths_none(tp, related_paths) == tp

\* for path in related_paths: term_paths[path[0]].discard(path)
discard_paths(tp, related_paths) ==
    [t \in DOMAIN tp |-> tp[t] \ {path \in related_paths : path[1] = t}]

\* x == curr_path[-1] with x a path (a tuple) and curr_path[-1] a term id (a
\* str): Python's == of a tuple and a str is False
tuple_equals_id(x, id) == FALSE

\* the inner loop, while len(curr_path) > 1; del of a key of a defaultdict
\* leaves the empty default behind
RECURSIVE walk_inward(_, _, _, _, _)
walk_inward(curr_path, selected, related_paths, ap, tp) ==
    IF Len(curr_path) > 1
    THEN LET curr_highest_ancestor == curr_path[Len(curr_path)]
             popped == SubSeq(curr_path, 1, Len(curr_path) - 1)
         IN  IF \/ ~(\A x \in related_paths : Len(x) >= Len(popped))
                \/ ~(\A x \in related_paths : tuple_equals_id(x, popped[Len(popped)]))
             THEN [selected |-> selected, ap |-> ap, tp |-> tp]
             ELSE walk_inward(popped, curr_highest_ancestor, related_paths,
                              [ap EXCEPT ![curr_highest_ancestor] = {}],
                              discard_paths(tp, related_paths))
    ELSE [selected |-> selected, ap |-> ap, tp |-> tp]

\* a plausible slip: the work list is not taken again from term_paths
refresh_copy_stale(copy_after_pop, tp, id) == copy_after_pop

\* if len(term_paths[go_term_id]) > 0: the copy is taken again, else: break
\* (the empty work list stands for the break)
refresh_copy(copy_after_pop, tp, id) == IF tp[id] # {} THEN tp[id] ELSE {}

\* the result without merging
identity_ids(names, dict) == {dict[names[i]] : i \in 1..Len(names)}

(***************************************************************************)
(* RawDataFetcher.load_go_data: the filter on the annotations              *)
(***************************************************************************)
\* a plausible slip: the ontology is not asked whether it knows the term
annotation_kept_unknown(onto, exclusion, id) == id \notin exclusion

annotation_kept(onto, exclusion, id) ==
    /\ id \in DOMAIN onto
    /\ query_term(onto, id).id \notin exclusion

load_go_data(onto, exclusion, annots) ==
    SelectSeq(annots, LAMBDA id : annotation_kept(onto, exclusion, id))

(***************************************************************************)
(* GOTerm.get_parents as load_go_data replaces it: the is_a parents and the *)
(* targets of the part_of relationships.  relationship[id] is the set      *)
(* relationship["part_of"] of the term, empty when the term has none.       *)
(***************************************************************************)
get_parents(onto, rel, id) ==
    IF rel[id] # {} THEN onto[id] \cup rel[id] ELSE onto[id]

(***************************************************************************)
(* Iteration over a Python set.  The order is the one of the process (it   *)
(* follows the hashes of the members); the model knows two of them, the    *)
(* term ids ascending and the term ids descending, and a list made from a  *)
(* set of terms has the terms in that order.                               *)
(***************************************************************************)
SetMin(S) == CHOOSE m \in S : \A x \in S : m <= x

RECURSIVE list_of(_, _)
list_of(S, order) ==
    IF S = {} THEN <<>>
    ELSE LET x == IF order = "ascending" THEN SetMin(S) ELSE SetMax(S)
         IN  <<x>> \o list_of(S \ {x}, order)

\* a dict with no key
EmptyDict == [key \in {} |-> {}]

\* d[key] = value
DictSet(d, key, item) ==
    [k \in DOMAIN d \cup {key} |-> IF k = key THEN item ELSE d[k]]

\* d.update(other)
DictUpdate(d, other) ==
    [k \in DOMAIN d \cup DOMAIN other |-> IF k \in DOMAIN other THEN other[k] ELSE d[k]]

(***************************************************************************)
(* The configuration generate_go_sentences is called with: two aspects,    *)
(* the evidence codes EXP and IEA mapped to the groups E and H (ND is a    *)
(* code without a group), the prefix and postfix of every (aspect, group)  *)
(* and, when there are special cases, one for the group E.                 *)
(***************************************************************************)
Aspects == {"F", "P"}

MappedEvidenceCodes == {"EXP", "IEA"}

EvidenceCodes == MappedEvidenceCodes \cup {"ND"}

evidence_codes_groups_map ==
    [code \in MappedEvidenceCodes |-> IF code = "EXP" THEN <<"E">> ELSE <<"H">>]

\* the caller's evidence_groups_priority_list before the call
evidence_groups_priority_list_0 == << <<"E">>, <<"H">> >>

\* str(special_case[0])
str(n) == <<ToString(n)>>

\* (id, match_regex, prefix, postfix)
special_case_1 == <<1, NameOf(2), <<"b">>, <<"z", " ", "e">> >>

NoSpecialCases == [key \in Aspects \X {<<"E">>, <<"H">>} |-> <<>>]

SpecialCasesOfE ==
    [key \in Aspects \X {<<"E">>, <<"H">>} |->
        IF key[2] = <<"E">> THEN <<special_case_1>> ELSE <<>>]

\* a second special case of the group E, whose pattern every term name
\* begins with
special_case_2 == <<2, <<"term">>, <<"b">>, <<"w", " ", "e">> >>

TwoSpecialCasesOfE ==
    [key \in Aspects \X {<<"E">>, <<"H">>} |->
        IF key[2] = <<"E">> THEN <<special_case_1, special_case_2>> ELSE <<>>]

\* (prefix, postfix) of every (aspect, group); a group of the special cases
\* has the phrases of its special case
go_prepostfix_sentences_map ==
    [key \in Aspects \X {<<"E">>, <<"H">>, <<"E">> \o str(special_case_1[1]),
                         <<"E">> \o str(special_case_2[1])} |->
        CASE key[2] = <<"E">> -> << <<"a">>, <<"x", " ", "e">> >>
          [] key[2] = <<"H">> ->
                << IF key[1] = "F" THEN <<"a">> ELSE <<"b">>, <<"y", " ", "e">> >>
          [] key[2] = <<"E">> \o str(special_case_2[1]) ->
                <<special_case_2[3], special_case_2[4]>>
          [] OTHER -> <<special_case_1[3], special_case_1[4]>>]

\* the annotations of the terms S in the order of their ids, each with an
\* evidence code and an aspect
annotations_of(S, ev, asp) ==
    LET l == list_of(S, "ascending")
    IN  [i \in 1..Len(l) |->
            [GO_ID |-> l[i], GO_Name |-> NameOf(l[i]),
             Evidence |-> ev[l[i]], Aspect |-> asp[l[i]]]]

(***************************************************************************)
(* RawDataFetcher.load_go_data on annotation records                       *)
(***************************************************************************)
load_go_annotations(onto, exclusion, data) ==
    LET kept == SelectSeq(data, LAMBDA a : annotation_kept(onto, exclusion, a.GO_ID))
    IN  [i \in 1..Len(kept) |-> [kept[i] EXCEPT !.GO_Name = NameOf(kept[i].GO_ID)]]

(***************************************************************************)
(* generate_go_sentences: the loop over the annotations                    *)
(***************************************************************************)
\* re.match(re.escape(pattern), name): the name begins with the pattern
re_match(pattern, name) ==
    /\ Len(pattern) <= Len(name)
    /\ SubSeq(name, 1, Len(pattern)) = pattern

\* a plausible slip: without the break the last special case that matches wins
matching_special_case_last(cases, name) ==
    IF \E i \in 1..Len(cases) : re_match(cases[i][2], name)
    THEN CHOOSE i \in 1..Len(cases) :
            /\ re_match(cases[i][2], name)
            /\ \A j \in (i + 1)..Len(cases) : ~re_match(cases[j][2], name)
    ELSE 0

\* the position of the first special case that matches (the loop breaks
\* there), 0 when none matches
matching_special_case(cases, name) ==
    IF \E i \in 1..Len(cases) : re_match(cases[i][2], name)
    THEN CHOOSE i \in 1..Len(cases) :
            /\ re_match(cases[i][2], name)
            /\ \A j \in 1..(i - 1) : ~re_match(cases[j][2], name)
    ELSE 0

\* l.insert(l.index(x) + 1, y)
insert_after(l, x, y) ==
    LET p == CHOOSE i \in 1..Len(l) : l[i] = x /\ \A j \in 1..(i - 1) : l[j] # x
    IN  SubSeq(l, 1, p) \o <<y>> \o SubSeq(l, p + 1, Len(l))

\* go_terms_groups[map_key].add(term), go_terms_groups a defaultdict(set)
add_term(acc, map_key, term, priority) ==
    [keys |-> IF map_key \in Range(acc.keys) THEN acc.keys ELSE Append(acc.keys, map_key),
     groups |-> DictSet(acc.groups, map_key,
                        (IF map_key \in Range(acc.keys) THEN acc.groups[map_key] ELSE {})
                            \cup {term}),
     priority |-> priority]

\* a plausible slip: an annotation with an evidence code that has no group
\* goes to the group of lowest priority
add_annotation_any_code(acc, annotation, special) ==
    IF annotation.Evidence \in DOMAIN evidence_codes_groups_map
    THEN LET group == evidence_codes_groups_map[annotation.Evidence]
             key0 == <<annotation.Aspect, group>>
             m == IF key0 \in DOMAIN special
                  THEN matching_special_case(special[key0], annotation.GO_Name)
                  ELSE 0
             sub == IF m > 0 THEN group \o str(special[key0][m][1]) ELSE group
         IN  add_term(acc, <<annotation.Aspect, sub>>,
                      <<annotation.GO_Name, annotation.GO_ID>>,
                      IF m > 0 /\ sub \notin Range(acc.priority)
                      THEN insert_after(acc.priority, group, sub)
                      ELSE acc.priority)
    ELSE add_term(acc, <<annotation.Aspect, acc.priority[Len(acc.priority)]>>,
                  <<annotation.GO_Name, annotation.GO_ID>>, acc.priority)

\* one pass of the loop of lines 184-199
add_annotation(acc, annotation, special) ==
    IF annotation.Evidence \in DOMAIN evidence_codes_groups_map
    THEN LET group == evidence_codes_groups_map[annotation.Evidence]
             key0 == <<annotation.Aspect, group>>
             m == IF key0 \in DOMAIN special
                  THEN matching_special_case(special[key0], annotation.GO_Name)
                  ELSE 0
             sub == IF m > 0 THEN group \o str(special[key0][m][1]) ELSE group
         IN  add_term(acc, <<annotation.Aspect, sub>>,
                      <<annotation.GO_Name, annotation.GO_ID>>,
                      IF m > 0 /\ sub \notin Range(acc.priority)
                      THEN insert_after(acc.priority, group, sub)
                      ELSE acc.priority)
    ELSE acc

RECURSIVE go_terms_groups(_, _, _, _)
go_terms_groups(annots, i, acc, special) ==
    IF i > Len(annots) THEN acc
    ELSE go_terms_groups(annots, i + 1, add_annotation(acc, annots[i], special), special)

(***************************************************************************)
(* The common-ancestor merge as a function: step 2 takes the paths of the  *)
(* work list in one order of the set.                                      *)
(***************************************************************************)
RECURSIVE merge_step2(_, _, _, _, _, _, _)
merge_step2(names, dict, idx, copy, tp, ap, final) ==
    IF copy = {}
    THEN IF idx < Len(names)
         THEN merge_step2(names, dict, idx + 1, tp[dict[names[idx + 1]]], tp, ap, final)
         ELSE final
    ELSE LET path == CHOOSE path \in copy : TRUE
             go_term_id == dict[names[idx]]
             highest == path[Len(path)]
             curr_path == SubSeq(path, 1, Len(path) - 1)
             related_paths == ap[highest]
             w == walk_inward(curr_path, highest, related_paths,
                              [ap EXCEPT ![highest] = {}], tp)
             tp1 == discard_paths(w.tp, related_paths)
         IN  merge_step2(names, dict, idx, refresh_copy(copy \ {path}, tp1, go_term_id),
                         tp1, w.ap, final \cup {w.selected})

get_merged_term_ids_by_common_ancestor_from_term_names(names, dict, onto, min_dist, min_terms) ==
    IF merge_attempted(names, min_terms)
    THEN LET tp == step1_term_paths(names, dict, onto, min_dist)
             ap == step1_ancestor_paths(names, dict, onto, min_dist)
         IN  merge_step2(names, dict, 1, tp[dict[names[1]]], tp, ap, {})
    ELSE identity_ids(names, dict)

(***************************************************************************)
(* generate_go_sentences: the loop over the groups of terms                *)
(***************************************************************************)
\* [term[0] for term in go_terms]
names_of_terms(go_terms, order) ==
    LET ids == list_of({t[2] : t \in go_terms}, order)
    IN  [i \in 1..Len(ids) |-> (CHOOSE t \in go_terms : t[2] = ids[i])[1]]

\* {term_name: term_id for term_name, term_id in go_terms}
dict_of_terms(go_terms) ==
    [name \in {t[1] : t \in go_terms} |-> (CHOOSE t \in go_terms : t[1] = name)[2]]

\* [go_ontology.query_term(term_id).name for term_id in ids]
names_of_ids(ids, onto, order) ==
    LET l == list_of(ids, order)
    IN  [i \in 1..Len(l) |-> query_term(onto, l[i]).name]

\* {query_term(term_id).name: query_term(term_id).id for term_id in ids}
dict_of_ids(ids, onto) ==
    [name \in {query_term(onto, id).name : id \in ids} |->
        query_term(onto, CHOOSE id \in ids : query_term(onto, id).name = name).id]

\* lines 205-220: the names and the dict of a group after the removal of
\* parents and the merge
reduced_terms(go_terms, onto, remove, threshold, min_dist, order) ==
    LET names0 == names_of_terms(go_terms, order)
        dict0 == dict_of_terms(go_terms)
        ids1 == get_term_ids_without_parents_from_terms_names(names0, dict0, onto)
        names1 == IF remove THEN names_of_ids(ids1, onto, order) ELSE names0
        dict1 == IF remove THEN dict_of_ids(ids1, onto) ELSE dict0
        ids2 == get_merged_term_ids_by_common_ancestor_from_term_names(
                    names1, dict1, onto, min_dist, threshold)
    IN  IF threshold > 0
        THEN [names |-> names_of_ids(ids2, onto, order), dict |-> dict_of_ids(ids2, onto)]
        ELSE [names |-> names1, dict |-> dict1]

\* a plausible slip: the text is composed without the postfix
get_single_go_sentence_no_postfix(names, dict, aspect, evidence_group) ==
    IF Len(names) > 0
    THEN LET pre == go_prepostfix_sentences_map[<<aspect, evidence_group>>][1]
             post == go_prepostfix_sentences_map[<<aspect, evidence_group>>][2]
         IN  << [prefix |-> pre, terms |-> names, postfix |-> post, term_ids_dict |-> dict,
                 text |-> compose_drop_postfix(pre, names, post),
                 go_aspect |-> aspect, evidence_group |-> evidence_group] >>
    ELSE <<>>

\* a plausible slip: a sentence is built for an empty list of terms too
get_single_go_sentence_always(names, dict, aspect, evidence_group) ==
    LET pre == go_prepostfix_sentences_map[<<aspect, evidence_group>>][1]
        post == go_prepostfix_sentences_map[<<aspect, evidence_group>>][2]
    IN  << [prefix |-> pre, terms |-> names, postfix |-> post, term_ids_dict |-> dict,
            text |-> IF Len(names) > 0 THEN compose_go_sentence(pre, names, post)
                     ELSE pre \o <<" ">> \o post,
            go_aspect |-> aspect, evidence_group |-> evidence_group] >>

\* _get_single_go_sentence: the list holding the sentence, empty for None
get_single_go_sentence(names, dict, aspect, evidence_group) ==
    IF Len(names) > 0
    THEN LET pre == go_prepostfix_sentences_map[<<aspect, evidence_group>>][1]
             post == go_prepostfix_sentences_map[<<aspect, evidence_group>>][2]
         IN  << [prefix |-> pre, terms |-> names, postfix |-> post, term_ids_dict |-> dict,
                 text |-> compose_go_sentence(pre, names, post),
                 go_aspect |-> aspect, evidence_group |-> evidence_group] >>
    ELSE <<>>

\* GOSentencesCollection.set_sentence; keys is the order of the keys of
\* sentences_map
set_sentence(collection, sentence) ==
    IF Len(sentence) > 0
    THEN LET key == <<sentence[1].go_aspect, sentence[1].evidence_group>>
         IN  [collection EXCEPT
                !.keys = IF key \in Range(@) THEN @ ELSE Append(@, key),
                !.sentences_map = DictSet(@, key, sentence[1])]
    ELSE collection

\* the loop of lines 204-225
RECURSIVE set_sentences(_, _, _, _, _, _, _, _)
set_sentences(collection, acc, i, onto, remove, threshold, min_dist, order) ==
    IF i > Len(acc.keys) THEN collection
    ELSE LET key == acc.keys[i]
             r == reduced_terms(acc.groups[key], onto, remove, threshold, min_dist, order)
         IN  set_sentences(
                set_sentence(collection, get_single_go_sentence(r.names, r.dict,
                                                                key[1], key[2])),
                acc, i + 1, onto, remove, threshold, min_dist, order)

\* query_term gives None for an unknown id, and lines 208-220 read the
\* parents, the depth or the name of every term of a group when parents are
\* removed or the threshold is not 0: an AttributeError
generate_raises(annots, onto, priority, special, remove, threshold) ==
    LET acc == go_terms_groups(annots, 1,
                   [keys |-> <<>>, groups |-> EmptyDict, priority |-> priority], special)
    IN  /\ remove \/ threshold > 0
        /\ \E i \in 1..Len(acc.keys) :
            \E t \in acc.groups[acc.keys[i]] : t[2] \notin DOMAIN onto

\* the returned value: None for an empty list of annotations.  The collection
\* holds the caller's list itself as evidence_groups_list.
generate_go_sentences(annots, onto, priority, special, remove, threshold, min_dist, order) ==
    IF Len(annots) > 0
    THEN LET acc == go_terms_groups(annots, 1,
                        [keys |-> <<>>, groups |-> EmptyDict, priority |-> priority],
                        special)
             collection == set_sentences(
                        [returned_none |-> FALSE, keys |-> <<>>,
                         sentences_map |-> EmptyDict],
                        acc, 1, onto, remove, threshold, min_dist, order)
         IN  collection
    ELSE [returned_none |-> TRUE, keys |-> <<>>, sentences_map |-> EmptyDict]

\* the caller's list after the call: lines 192-197 insert into it
evidence_groups_list_after(annots, priority, special) ==
    IF Len(annots) > 0
    THEN go_terms_groups(annots, 1,
             [keys |-> <<>>, groups |-> EmptyDict, priority |-> priority], special).priority
    ELSE priority

(***************************************************************************)
(* GOSentencesCollection.get_sentences                                     *)
(***************************************************************************)
\* GOSentenceMerger(); term_postfix_dict and term_evgroup_dict are written
\* and never read.  term_ids_dict is the attribute line 94 creates.
GOSentenceMerger ==
    [postfix_list |-> <<>>, terms |-> {}, terms_ids_dict |-> EmptyDict,
     term_ids_dict |-> EmptyDict, evidence_groups |-> <<>>]

\* a plausible slip: the terms of the merger are assigned, not updated
merge_sentence_assign(acc, sentence, aspect, eg) ==
    LET pre == go_prepostfix_sentences_map[<<aspect, eg>>][1]
        old == IF pre \in Range(acc.prefixes) THEN acc.mergers[pre] ELSE GOSentenceMerger
        new == [old EXCEPT
                    !.postfix_list = Append(@, go_prepostfix_sentences_map[<<aspect, eg>>][2]),
                    !.terms = Range(sentence.terms),
                    !.terms_ids_dict = DictUpdate(@, sentence.term_ids_dict),
                    !.evidence_groups = Append(@, eg)]
    IN  [acc EXCEPT
            !.prefixes = IF pre \in Range(@) THEN @ ELSE Append(@, pre),
            !.mergers = DictSet(@, pre, new)]

\* lines 61-70
merge_sentence(acc, sentence, aspect, eg) ==
    LET pre == go_prepostfix_sentences_map[<<aspect, eg>>][1]
        old == IF pre \in Range(acc.prefixes) THEN acc.mergers[pre] ELSE GOSentenceMerger
        new == [old EXCEPT
                    !.postfix_list = Append(@, go_prepostfix_sentences_map[<<aspect, eg>>][2]),
                    !.terms = @ \cup Range(sentence.terms),
                    !.terms_ids_dict = DictUpdate(@, sentence.term_ids_dict),
                    !.evidence_groups = Append(@, eg)]
    IN  [acc EXCEPT
            !.prefixes = IF pre \in Range(@) THEN @ ELSE Append(@, pre),
            !.mergers = DictSet(@, pre, new)]

\* a plausible slip: keep_only_best_group is not looked at
RECURSIVE sentences_of_groups_all(_, _, _, _, _, _, _)
sentences_of_groups_all(collection, groups, i, acc, aspect, keep, merge) ==
    IF i > Len(groups) THEN acc
    ELSE LET key == <<aspect, groups[i]>>
         IN  IF key \in Range(collection.keys)
             THEN LET sentence == collection.sentences_map[key]
                      acc1 == IF merge
                              THEN merge_sentence(acc, sentence, aspect, groups[i])
                              ELSE [acc EXCEPT !.sentences = Append(@, sentence)]
                  IN  sentences_of_groups_all(collection, groups, i + 1, acc1, aspect,
                                              keep, merge)
             ELSE sentences_of_groups_all(collection, groups, i + 1, acc, aspect, keep,
                                          merge)

\* the loop of lines 58-74
RECURSIVE sentences_of_groups(_, _, _, _, _, _, _)
sentences_of_groups(collection, groups, i, acc, aspect, keep, merge) ==
    IF i > Len(groups) THEN acc
    ELSE LET key == <<aspect, groups[i]>>
         IN  IF key \in Range(collection.keys)
             THEN LET sentence == collection.sentences_map[key]
                      acc1 == IF merge
                              THEN merge_sentence(acc, sentence, aspect, groups[i])
                              ELSE [acc EXCEPT !.sentences = Append(@, sentence)]
                  IN  IF keep THEN acc1
                      ELSE sentences_of_groups(collection, groups, i + 1, acc1, aspect,
                                               keep, merge)
             ELSE sentences_of_groups(collection, groups, i + 1, acc, aspect, keep, merge)

\* list(terms) for the names of a merger that is still the set of line 63
names_in_order(names, dict, order) ==
    LET l == list_of({dict[n] : n \in names}, order)
    IN  [i \in 1..Len(l) |-> CHOOSE n \in names : dict[n] = l[i]]

\* lines 78-95: the terms, as a list, and the dicts of a merger
reduced_merger(merger, onto, remove, threshold, min_dist, order) ==
    LET names0 == names_in_order(merger.terms, merger.terms_ids_dict, order)
        ids1 == get_term_ids_without_parents_from_terms_names(
                    names0, merger.terms_ids_dict, onto)
        names1 == IF remove THEN names_of_ids(ids1, onto, order) ELSE names0
        dict1 == IF remove
                 THEN [name \in DOMAIN merger.terms_ids_dict \cap Range(names1) |->
                            merger.terms_ids_dict[name]]
                 ELSE merger.terms_ids_dict
        ids2 == get_merged_term_ids_by_common_ancestor_from_term_names(
                    names1, dict1, onto, min_dist, threshold)
    IN  IF threshold > 0
        THEN [terms |-> names_of_ids(ids2, onto, order), terms_ids_dict |-> dict1,
              term_ids_dict |-> dict_of_ids(ids2, onto)]
        ELSE [terms |-> names1, terms_ids_dict |-> dict1,
              term_ids_dict |-> merger.term_ids_dict]

\* lines 96-104, for the prefixes from position i on
RECURSIVE merged_sentences(_, _, _, _, _, _, _, _, _)
merged_sentences(collection, acc, i, aspect, onto, remove, threshold, min_dist, order) ==
    IF i > Len(acc.prefixes) THEN <<>>
    ELSE LET pre == acc.prefixes[i]
             merger == acc.mergers[pre]
             r == reduced_merger(merger, onto, remove, threshold, min_dist, order)
             post == merge_postfix_phrases(merger.postfix_list)
             rest == merged_sentences(collection, acc, i + 1, aspect, onto, remove,
                                      threshold, min_dist, order)
         IN  IF Len(r.terms) > 0
             THEN << [prefix |-> pre, terms |-> r.terms,
                      term_ids_dict |-> r.terms_ids_dict, postfix |-> post,
                      text |-> compose_go_sentence(pre, r.terms, post),
                      go_aspect |-> aspect,
                      evidence_group |-> JoinStr(<<",", " ">>, merger.evidence_groups)] >>
                  \o rest
             ELSE rest

get_sentences(collection, groups, aspect, onto, keep, merge, remove, threshold, min_dist, order) ==
    LET acc == sentences_of_groups(collection, groups, 1,
                   [sentences |-> <<>>, prefixes |-> <<>>, mergers |-> EmptyDict],
                   aspect, keep, merge)
    IN  IF merge
        THEN merged_sentences(collection, acc, 1, aspect, onto, remove, threshold,
                              min_dist, order)
        ELSE acc.sentences

(***************************************************************************)
(* find_set_covering of genedescriptions.ontology_tools, which the tests   *)
(* import: the greedy selection of subsets (id, label, covered_elements).  *)
(* A subset is taken while elements are left to cover, fewer than          *)
(* max_num_subsets are taken and a subset covers a new element; the        *)
(* subset taken is the first of the list among those of the highest gain.  *)
(***************************************************************************)
\* the elements of the subsets of the test
Elements == {"A", "B", "C"}

\* subsets, values and costs_wrong of test_find_set_covering
test_subsets ==
    << <<1, "1", {"A", "B", "C"}>>, <<2, "2", {"A", "B"}>>, <<3, "3", {"C"}>>,
       <<4, "4", {"A"}>>, <<5, "5", {"B"}>>, <<6, "6", {"C"}>> >>

test_values == <<2, 12, 5, 20, 20, 20>>

costs_wrong == <<1, 3>>

\* the subsets (i, str(i), sets[i])
subsets_of(sets) == [i \in 1..Len(sets) |-> <<i, ToString(i), sets[i]>>]

universe_of(subs) == UNION {subs[i][3] : i \in 1..Len(subs)}

\* a plausible slip: the weights are not looked at
cover_gain_unweighted(subs, val, i, covered) == Cardinality(subs[i][3] \ covered)

\* the gain of taking subset i: its weight for every element it newly
\* covers, the number of these elements without weights
cover_gain(subs, val, i, covered) ==
    IF Len(val) > 0
    THEN val[1][i] * Cardinality(subs[i][3] \ covered)
    ELSE Cardinality(subs[i][3] \ covered)

\* all elements are covered or max_num_subsets subsets have been chosen
cover_finished(subs, max, covered, chosen) ==
    \/ covered = universe_of(subs)
    \/ Len(chosen) >= max

\* a plausible slip: subsets are taken until max_num_subsets of them are,
\* whether or not they cover anything new
RECURSIVE cover_greedy_to_max(_, _, _, _, _)
cover_greedy_to_max(subs, val, max, covered, chosen) ==
    LET remaining == (1..Len(subs)) \ Range(chosen)
    IN  IF Len(chosen) >= max \/ remaining = {}
        THEN chosen
        ELSE LET best == SetMin({i \in remaining :
                                    \A j \in remaining :
                                        cover_gain(subs, val, j, covered)
                                            <= cover_gain(subs, val, i, covered)})
             IN  cover_greedy_to_max(subs, val, max, covered \cup subs[best][3],
                                     Append(chosen, best))

RECURSIVE cover_greedy(_, _, _, _, _)
cover_greedy(subs, val, max, covered, chosen) ==
    LET remaining == (1..Len(subs)) \ Range(chosen)
    IN  IF \/ cover_finished(subs, max, covered, chosen)
           \/ remaining = {}
           \/ \A i \in remaining : subs[i][3] \subseteq covered
        THEN chosen
        ELSE LET best == SetMin({i \in remaining :
                                    /\ ~(subs[i][3] \subseteq covered)
                                    /\ \A j \in remaining :
                                        ~(subs[j][3] \subseteq covered) =>
                                            cover_gain(subs, val, j, covered)
                                                <= cover_gain(subs, val, i, covered)})
             IN  cover_greedy(subs, val, max, covered \cup subs[best][3],
                              Append(chosen, best))

\* a plausible slip: a value of the wrong length is used as far as it goes
find_set_covering_partial(subs, val, max) ==
    LET chosen == cover_greedy(subs,
                      IF Len(val) > 0 /\ Len(val[1]) # Len(subs) THEN <<>> ELSE val,
                      max, {}, <<>>)
    IN  << [k \in 1..Len(chosen) |-> subs[chosen[k]]] >>

\* the selection in the order the subsets were taken; None when value is
\* given and is not as long as subsets
find_set_covering(subs, val, max) ==
    IF Len(val) > 0 /\ Len(val[1]) # Len(subs)
    THEN <<>>
    ELSE LET chosen == cover_greedy(subs, val, max, {}, <<>>)
         IN  << [k \in 1..Len(chosen) |-> subs[chosen[k]]] >>

(***************************************************************************)
(* DataFetcher.get_annotations on the annotations of a gene                *)
(***************************************************************************)
\* the term ids of the annotations of the gene
FetchTermIds == {1, 2}

\* annotation["Qualifier"]
Qualifiers == {<<>>, <<"NOT">>}

\* dict(zip(priority_list, reversed(range(len(list(priority_list)))))): a
\* later pair of the zip replaces an earlier one of the same key
priority_map(priorities) ==
    [code \in Range(priorities) |->
        Len(priorities) - SetMax({i \in 1..Len(priorities) : priorities[i] = code})]

\* the comprehension of lines 155-157
filtered_annotations(data, obsolete, negative) ==
    SelectSeq(data, LAMBDA annotation :
        /\ obsolete \/ ~annotation.Is_Obsolete
        /\ negative \/ "NOT" \notin Range(annotation.Qualifier))

\* a plausible slip: an annotation of the same priority replaces the selected one
select_annotation_last_tie(selected, annotation, priorities) ==
    IF annotation.Evidence \in DOMAIN priority_map(priorities)
    THEN IF annotation.GO_ID \in Range(selected.keys)
         THEN IF priority_map(priorities)[annotation.Evidence]
                    >= priority_map(priorities)[selected.map[annotation.GO_ID].Evidence]
              THEN [selected EXCEPT !.map = DictSet(@, annotation.GO_ID, annotation)]
              ELSE selected
         ELSE [keys |-> Append(selected.keys, annotation.GO_ID),
               map |-> DictSet(selected.map, annotation.GO_ID, annotation)]
    ELSE selected

\* one pass of the loop of lines 161-168; keys is the order of the keys of
\* id_selected_annotation
select_annotation(selected, annotation, priorities) ==
    IF annotation.Evidence \in DOMAIN priority_map(priorities)
    THEN IF annotation.GO_ID \in Range(selected.keys)
         THEN IF priority_map(priorities)[annotation.Evidence]
                    > priority_map(priorities)[selected.map[annotation.GO_ID].Evidence]
              THEN [selected EXCEPT !.map = DictSet(@, annotation.GO_ID, annotation)]
              ELSE selected
         ELSE [keys |-> Append(selected.keys, annotation.GO_ID),
               map |-> DictSet(selected.map, annotation.GO_ID, annotation)]
    ELSE selected

RECURSIVE id_selected_annotation(_, _, _, _)
id_selected_annotation(annots, i, selected, priorities) ==
    IF i > Len(annots) THEN selected
    ELSE id_selected_annotation(annots, i + 1,
                                select_annotation(selected, annots[i], priorities),
                                priorities)

get_annotations(data, obsolete, negative, priorities) ==
    LET selected == id_selected_annotation(filtered_annotations(data, obsolete, negative),
                                           1, [keys |-> <<>>, map |-> EmptyDict], priorities)
    IN  [k \in 1..Len(selected.keys) |-> selected.map[selected.keys[k]]]

(***************************************************************************)
(* Specification of compose_go_sentence: the arguments are drawn in Init,  *)
(* the call is one step.                                                   *)
(***************************************************************************)
IdlePostfix == postfix_phrases = <<>> /\ merged_postfix = <<>>

IdlePrune ==
    /\ go_id = 0
    /\ parent_names = {}
    /\ term_ids_no_parents = {}
    /\ term_ids_no_parents_2 = {}

EmptyPaths(onto) == [t \in DOMAIN onto |-> {}]

NoResult == [done |-> FALSE, ids |-> {}, names |-> <<>>]

IdleMerge ==
    /\ min_distance_from_root = 0
    /\ min_number_of_terms = 0
    /\ term_paths = <<>>
    /\ ancestor_paths = <<>>
    /\ term_paths_copy = {}
    /\ term_idx = 0
    /\ final_terms_set = {}
    /\ first_result = NoResult

IdleOnto ==
    /\ go_ontology = <<>>
    /\ go_terms_names = <<>>
    /\ term_ids_dict = <<>>
    /\ go_terms_exclusion_list = {}
    /\ annotations = <<>>

IdleWalk == relationship = <<>> /\ go_parents = {} /\ paths_to_return = {}

IdleStack == call_stack = <<>> /\ terms_set = {} /\ name_idx = 0

IdleCover ==
    /\ subsets = <<>>
    /\ value = <<>>
    /\ max_num_subsets = 0
    /\ set_covering = <<>>

IdleFetch ==
    /\ dataset = <<>>
    /\ include_obsolete = FALSE
    /\ include_negative_results = FALSE
    /\ priority_list = <<>>
    /\ selected_annotations = <<>>

NoCollection == [returned_none |-> TRUE, keys |-> <<>>, sentences_map |-> EmptyDict]

IdleCall ==
    /\ go_aspect = ""
    /\ keep_only_best_group = FALSE
    /\ merge_groups_with_same_prefix = FALSE
    /\ sentences = <<>>

IdleGen ==
    /\ go_data = <<>>
    /\ go_annotations = <<>>
    /\ evidence_groups_priority_list = <<>>
    /\ go_prepostfix_special_cases_sent_map = <<>>
    /\ remove_parent_terms = FALSE
    /\ merge_num_terms_threshold = 0
    /\ merge_min_distance_from_root = 0
    /\ hash_order = "ascending"
    /\ sentences_collection = NoCollection
    /\ raised = FALSE
    /\ IdleCall

IdleCompose == prefix = <<>> /\ go_term_names = <<>> /\ postfix = <<>> /\ text = <<>>

InitCompose ==
    /\ pc = "compose"
    /\ prefix \in StringsUpTo(MaxLen)
    /\ postfix \in StringsUpTo(MaxLen)
    /\ go_term_names \in NonEmptyListsUpTo(TermTexts, MaxTerms)
    /\ text = <<>>
    /\ IdlePostfix /\ IdlePrune /\ IdleMerge /\ IdleOnto
    /\ IdleWalk /\ IdleGen
    /\ IdleCover /\ IdleFetch /\ IdleStack

Compose ==
    /\ pc = "compose"
    /\ text' = compose_go_sentence(prefix, go_term_names, postfix)
    /\ pc' = "composed"
    /\ UNCHANGED <<prefix, go_term_names, postfix, postfix_phrases, merged_postfix>>
    /\ UNCHANGED <<pruneVars, mergeVars, ontoVars>>
    /\ UNCHANGED <<walkVars, genVars>>
    /\ UNCHANGED <<coverVars, fetchVars, stackVars>>

NextCompose == Compose

SpecCompose == InitCompose /\ [][NextCompose]_vars

(***************************************************************************)
(* Specification of merge_postfix_phrases                                  *)
(***************************************************************************)
InitPostfix ==
    /\ pc = "merge_postfix"
    /\ \E n \in 1..MaxPhrases : postfix_phrases \in [1..n -> StringsUpTo(MaxPhraseLen)]
    /\ merged_postfix = <<>>
    /\ IdleCompose /\ IdlePrune /\ IdleMerge /\ IdleOnto
    /\ IdleWalk /\ IdleGen
    /\ IdleCover /\ IdleFetch /\ IdleStack

MergePostfix ==
    /\ pc = "merge_postfix"
    /\ merged_postfix' = merge_postfix_phrases(postfix_phrases)
    /\ pc' = "postfix_merged"
    /\ UNCHANGED <<prefix, go_term_names, postfix, text, postfix_phrases>>
    /\ UNCHANGED <<pruneVars, mergeVars, ontoVars>>
    /\ UNCHANGED <<walkVars, genVars>>
    /\ UNCHANGED <<coverVars, fetchVars, stackVars>>

NextPostfix == MergePostfix

SpecPostfix == InitPostfix /\ [][NextPostfix]_vars

(***************************************************************************)
(* Specification of the ancestor enumeration and of parent pruning: the    *)
(* ontology and the term list are drawn in Init.                           *)
(***************************************************************************)
InitPrune ==
    /\ pc = "prune"
    /\ go_ontology \in Ontologies(MaxNode)
    /\ \E ids \in DistinctListsUpTo(1..MaxNode, MaxInput) :
        /\ go_terms_names = [i \in 1..Len(ids) |-> NameOf(ids[i])]
        /\ term_ids_dict = DictOf(Range(ids))
    /\ go_terms_exclusion_list = {}
    /\ annotations = <<>>
    /\ IdlePrune /\ IdleMerge /\ IdleCompose /\ IdlePostfix
    /\ IdleWalk /\ IdleGen
    /\ IdleCover /\ IdleFetch /\ IdleStack

\* get_all_go_parent_names(go_id, go_ontology) for a term of the list
GetAllGoParentNames ==
    /\ pc = "prune"
    /\ \E i \in 1..Len(go_terms_names) :
        /\ go_id' = term_ids_dict[go_terms_names[i]]
        /\ parent_names' = get_all_go_parent_names(term_ids_dict[go_terms_names[i]],
                                                   go_ontology)
    /\ pc' = "parent_names"
    /\ UNCHANGED <<term_ids_no_parents, term_ids_no_parents_2>>
    /\ UNCHANGED <<textVars, mergeVars, ontoVars>>
    /\ UNCHANGED <<walkVars, genVars>>
    /\ UNCHANGED <<coverVars, fetchVars, stackVars>>

\* term_ids_no_parents = get_term_ids_without_parents_from_terms_names(...)
Prune ==
    /\ pc = "prune"
    /\ term_ids_no_parents' = get_term_ids_without_parents_from_terms_names(
            go_terms_names, term_ids_dict, go_ontology)
    /\ pc' = "pruned"
    /\ UNCHANGED <<go_id, parent_names, term_ids_no_parents_2>>
    /\ UNCHANGED <<textVars, mergeVars, ontoVars>>
    /\ UNCHANGED <<walkVars, genVars>>
    /\ UNCHANGED <<coverVars, fetchVars, stackVars>>

\* the pruning applied again to the terms of its result, named by the
\* ontology as generate_go_sentences names them, in any order
PruneAgain ==
    /\ pc = "pruned"
    /\ \E ids \in DistinctListsUpTo(term_ids_no_parents, Cardinality(term_ids_no_parents)) :
        /\ Range(ids) = term_ids_no_parents
        /\ term_ids_no_parents_2' = get_term_ids_without_parents_from_terms_names(
                [i \in 1..Len(ids) |-> query_term(go_ontology, ids[i]).name],
                [name \in {query_term(go_ontology, id).name : id \in Range(ids)} |->
                    CHOOSE id \in Range(ids) : query_term(go_ontology, id).name = name],
                go_ontology)
    /\ pc' = "pruned_twice"
    /\ UNCHANGED <<go_id, parent_names, term_ids_no_parents>>
    /\ UNCHANGED <<textVars, mergeVars, ontoVars>>
    /\ UNCHANGED <<walkVars, genVars>>
    /\ UNCHANGED <<coverVars, fetchVars, stackVars>>

NextPrune == GetAllGoParentNames \/ Prune \/ PruneAgain

SpecPrune == InitPrune /\ [][NextPrune]_vars

(***************************************************************************)
(* Specification of the common-ancestor merge on the terms load_go_data    *)
(* lets through.  Step 1 is one step; every pass of the while loop of step *)
(* 2 is one step, the path popped from the set being any of its members.   *)
(***************************************************************************)
InitMerge ==
    /\ pc = "load"
    /\ go_ontology \in Ontologies(MaxMergeNode)
    /\ annotations \in DistinctListsUpTo(1..MaxMergeNode, MaxInput)
    /\ go_terms_exclusion_list \in {{}} \cup {{n} : n \in 1..MaxMergeNode}
    /\ go_terms_names = <<>>
    /\ term_ids_dict = <<>>
    /\ min_distance_from_root \in 0..MaxDist
    /\ min_number_of_terms \in 0..MaxMinTerms
    /\ term_paths = EmptyPaths(go_ontology)
    /\ ancestor_paths = EmptyPaths(go_ontology)
    /\ term_paths_copy = {}
    /\ term_idx = 0
    /\ final_terms_set = {}
    /\ first_result = NoResult
    /\ IdlePrune /\ IdleCompose /\ IdlePostfix
    /\ IdleWalk /\ IdleGen
    /\ IdleCover /\ IdleFetch /\ IdleStack

\* load_go_data keeps the annotations of known terms not on the exclusion
\* list; their names and ids are the terms of the gene
LoadGoData ==
    /\ pc = "load"
    /\ LET kept == load_go_data(go_ontology, go_terms_exclusion_list, annotations)
       IN  /\ go_terms_names' = [i \in 1..Len(kept) |-> query_term(go_ontology, kept[i]).name]
           /\ term_ids_dict' = DictOf(Range(kept))
           /\ pc' = IF kept = <<>> THEN "no_terms" ELSE "merge"
    /\ UNCHANGED <<go_ontology, go_terms_exclusion_list, annotations>>
    /\ UNCHANGED <<textVars, pruneVars, mergeVars>>
    /\ UNCHANGED <<walkVars, genVars>>
    /\ UNCHANGED <<coverVars, fetchVars, stackVars>>

\* len(go_terms_names) <= min_number_of_terms: the ids of the terms
MergeIdentity ==
    /\ pc = "merge"
    /\ ~merge_attempted(go_terms_names, min_number_of_terms)
    /\ final_terms_set' = identity_ids(go_terms_names, term_ids_dict)
    /\ pc' = "merged"
    /\ UNCHANGED <<min_distance_from_root, min_number_of_terms, term_paths, ancestor_paths,
                   term_paths_copy, term_idx, first_result>>
    /\ UNCHANGED <<textVars, pruneVars, ontoVars>>
    /\ UNCHANGED <<walkVars, genVars>>
    /\ UNCHANGED <<coverVars, fetchVars, stackVars>>

\* step 1, and the entry of the step 2 loop at the first term
MergeBegin ==
    /\ pc = "merge"
    /\ merge_attempted(go_terms_names, min_number_of_terms)
    /\ final_terms_set' = {}
    /\ term_paths' = step1_term_paths(go_terms_names, term_ids_dict, go_ontology,
                                      min_distance_from_root)
    /\ ancestor_paths' = step1_ancestor_paths(go_terms_names, term_ids_dict, go_ontology,
                                              min_distance_from_root)
    /\ term_idx' = 1
    /\ term_paths_copy' = term_paths'[term_ids_dict[go_terms_names[1]]]
    /\ pc' = "merge_loop"
    /\ UNCHANGED <<min_distance_from_root, min_number_of_terms, first_result>>
    /\ UNCHANGED <<textVars, pruneVars, ontoVars>>
    /\ UNCHANGED <<walkVars, genVars>>
    /\ UNCHANGED <<coverVars, fetchVars, stackVars>>

\* one pass of while len(term_paths_copy) > 0
PopPath ==
    /\ pc = "merge_loop"
    /\ term_paths_copy # {}
    /\ \E path \in term_paths_copy :
        LET go_term_id == term_ids_dict[go_terms_names[term_idx]]
            highest == path[Len(path)]
            curr_path == SubSeq(path, 1, Len(path) - 1)
            related_paths == ancestor_paths[highest]
            w == walk_inward(curr_path, highest, related_paths,
                             [ancestor_paths EXCEPT ![highest] = {}], term_paths)
            tp == discard_paths(w.tp, related_paths)
        IN  /\ final_terms_set' = final_terms_set \cup {w.selected}
            /\ ancestor_paths' = w.ap
            /\ term_paths' = tp
            /\ term_paths_copy' = refresh_copy(term_paths_copy \ {path}, tp, go_term_id)
    /\ UNCHANGED <<pc, term_idx, min_distance_from_root, min_number_of_terms, first_result>>
    /\ UNCHANGED <<textVars, pruneVars, ontoVars>>
    /\ UNCHANGED <<walkVars, genVars>>
    /\ UNCHANGED <<coverVars, fetchVars, stackVars>>

\* the for loop of step 2 goes to the next term
NextTerm ==
    /\ pc = "merge_loop"
    /\ term_paths_copy = {}
    /\ term_idx < Len(go_terms_names)
    /\ term_idx' = term_idx + 1
    /\ term_paths_copy' = term_paths[term_ids_dict[go_terms_names[term_idx + 1]]]
    /\ UNCHANGED <<pc, min_distance_from_root, min_number_of_terms, term_paths,
                   ancestor_paths, final_terms_set, first_result>>
    /\ UNCHANGED <<textVars, pruneVars, ontoVars>>
    /\ UNCHANGED <<walkVars, genVars>>
    /\ UNCHANGED <<coverVars, fetchVars, stackVars>>

\* return final_terms_set
MergeReturn ==
    /\ pc = "merge_loop"
    /\ term_paths_copy = {}
    /\ term_idx = Len(go_terms_names)
    /\ pc' = "merged"
    /\ UNCHANGED <<mergeVars, textVars, pruneVars, ontoVars>>
    /\ UNCHANGED <<walkVars, genVars>>
    /\ UNCHANGED <<coverVars, fetchVars, stackVars>>

NextMerge == LoadGoData \/ MergeIdentity \/ MergeBegin \/ PopPath \/ NextTerm \/ MergeReturn

SpecMerge == InitMerge /\ [][NextMerge]_vars

(***************************************************************************)
(* Specification of two calls of the merge on the same terms: the second   *)
(* call takes the names in any order, and pops its paths in any order.     *)
(***************************************************************************)
InitMergeOrder ==
    /\ pc = "merge"
    /\ go_ontology \in Ontologies(MaxMergeNode)
    /\ \E ids \in DistinctListsUpTo(1..MaxMergeNode, MaxInput) :
        /\ go_terms_names = [i \in 1..Len(ids) |-> NameOf(ids[i])]
        /\ term_ids_dict = DictOf(Range(ids))
    /\ annotations = <<>>
    /\ go_terms_exclusion_list = {}
    /\ min_distance_from_root \in 0..MaxDist
    /\ min_number_of_terms \in 0..MaxMinTerms
    /\ term_paths = EmptyPaths(go_ontology)
    /\ ancestor_paths = EmptyPaths(go_ontology)
    /\ term_paths_copy = {}
    /\ term_idx = 0
    /\ final_terms_set = {}
    /\ first_result = NoResult
    /\ IdlePrune /\ IdleCompose /\ IdlePostfix
    /\ IdleWalk /\ IdleGen
    /\ IdleCover /\ IdleFetch /\ IdleStack

\* the same terms are merged again, the list of names in any order
CallAgain ==
    /\ pc = "merged"
    /\ ~first_result.done
    /\ first_result' = [done |-> TRUE, ids |-> final_terms_set, names |-> go_terms_names]
    /\ \E names \in DistinctListsUpTo(Range(go_terms_names), Len(go_terms_names)) :
        /\ Len(names) = Len(go_terms_names)
        /\ go_terms_names' = names
    /\ term_paths' = EmptyPaths(go_ontology)
    /\ ancestor_paths' = EmptyPaths(go_ontology)
    /\ term_paths_copy' = {}
    /\ term_idx' = 0
    /\ final_terms_set' = {}
    /\ pc' = "merge"
    /\ UNCHANGED <<min_distance_from_root, min_number_of_terms, go_ontology, term_ids_dict,
                   go_terms_exclusion_list, annotations>>
    /\ UNCHANGED <<textVars, pruneVars>>
    /\ UNCHANGED <<walkVars, genVars>>
    /\ UNCHANGED <<coverVars, fetchVars, stackVars>>

NextMergeOrder ==
    MergeIdentity \/ MergeBegin \/ PopPath \/ NextTerm \/ MergeReturn \/ CallAgain

SpecMergeOrder == InitMergeOrder /\ [][NextMergeOrder]_vars

(***************************************************************************)
(* Specification of the ancestor enumeration and of parent pruning on an   *)
(* ontology with part_of relationships next to the is_a parents.           *)
(***************************************************************************)
InitPartOf ==
    /\ pc = "prune"
    /\ go_ontology \in Ontologies(MaxPartOfNode)
    /\ relationship \in Ontologies(MaxPartOfNode)
    /\ \E ids \in DistinctListsUpTo(1..MaxPartOfNode, MaxInput) :
        /\ go_terms_names = [i \in 1..Len(ids) |-> NameOf(ids[i])]
        /\ term_ids_dict = DictOf(Range(ids))
    /\ go_terms_exclusion_list = {}
    /\ annotations = <<>>
    /\ go_parents = {}
    /\ paths_to_return = {}
    /\ IdlePrune /\ IdleMerge /\ IdleCompose /\ IdlePostfix /\ IdleGen
    /\ IdleCover /\ IdleFetch /\ IdleStack

\* term.get_parents() for a term of the list
GetParents ==
    /\ pc = "prune"
    /\ \E i \in 1..Len(go_terms_names) :
        /\ go_id' = term_ids_dict[go_terms_names[i]]
        /\ go_parents' = get_parents(go_ontology, relationship,
                                      term_ids_dict[go_terms_names[i]])
    /\ pc' = "parents"
    /\ UNCHANGED <<parent_names, term_ids_no_parents, term_ids_no_parents_2>>
    /\ UNCHANGED <<relationship, paths_to_return>>
    /\ UNCHANGED <<textVars, mergeVars, ontoVars, genVars>>
    /\ UNCHANGED <<coverVars, fetchVars, stackVars>>

NextPartOf == GetParents \/ GetAllGoParentNames \/ Prune

SpecPartOf == InitPartOf /\ [][NextPartOf]_vars

(***************************************************************************)
(* Specification of get_all_term_paths_to_root called on a term            *)
(***************************************************************************)
InitPaths ==
    /\ pc = "paths"
    /\ go_ontology \in Ontologies(MaxNode)
    /\ go_id \in 1..MaxNode
    /\ min_distance_from_root \in 0..MaxDist
    /\ go_terms_names = <<>>
    /\ term_ids_dict = <<>>
    /\ go_terms_exclusion_list = {}
    /\ annotations = <<>>
    /\ parent_names = {}
    /\ term_ids_no_parents = {}
    /\ term_ids_no_parents_2 = {}
    /\ min_number_of_terms = 0
    /\ term_paths = <<>>
    /\ ancestor_paths = <<>>
    /\ term_paths_copy = {}
    /\ term_idx = 0
    /\ final_terms_set = {}
    /\ first_result = NoResult
    /\ IdleWalk /\ IdleCompose /\ IdlePostfix /\ IdleGen
    /\ IdleCover /\ IdleFetch /\ IdleStack

\* get_all_term_paths_to_root(go_id, go_ontology, min_distance_from_root)
GetAllTermPathsToRoot ==
    /\ pc = "paths"
    /\ paths_to_return' = get_all_term_paths_to_root(go_id, go_ontology,
                                                      min_distance_from_root, <<>>)
    /\ pc' = "paths_returned"
    /\ UNCHANGED <<relationship, go_parents>>
    /\ UNCHANGED <<textVars, pruneVars, mergeVars, ontoVars, genVars>>
    /\ UNCHANGED <<coverVars, fetchVars, stackVars>>

NextPaths == GetAllTermPathsToRoot

SpecPaths == InitPaths /\ [][NextPaths]_vars

(***************************************************************************)
(* Specification of the generation of the sentences of a gene from the     *)
(* annotations of the file: load_go_data, then generate_go_sentences.  A   *)
(* term id above MaxGenNode is unknown to the ontology.                    *)
(***************************************************************************)
IdleTerms == go_terms_names = <<>> /\ term_ids_dict = <<>> /\ annotations = <<>>

InitGenerate ==
    /\ pc = "load_go_data"
    /\ go_ontology \in Ontologies(MaxGenNode)
    /\ \E S \in SUBSET (1..(MaxGenNode + 1)) :
        \E ev \in [S -> EvidenceCodes], asp \in [S -> Aspects] :
            go_data = annotations_of(S, ev, asp)
    /\ go_annotations = <<>>
    /\ go_terms_exclusion_list = {}
    /\ evidence_groups_priority_list = evidence_groups_priority_list_0
    /\ go_prepostfix_special_cases_sent_map \in {NoSpecialCases, SpecialCasesOfE}
    /\ remove_parent_terms \in BOOLEAN
    /\ merge_num_terms_threshold \in {0, MaxThreshold}
    /\ merge_min_distance_from_root \in {0, MaxGenDist}
    /\ hash_order \in {"ascending", "descending"}
    /\ sentences_collection = NoCollection
    /\ raised = FALSE
    /\ IdleCall /\ IdleTerms
    /\ IdlePrune /\ IdleMerge /\ IdleCompose /\ IdlePostfix /\ IdleWalk
    /\ IdleCover /\ IdleFetch /\ IdleStack

\* load_go_data, for the annotations of the gene
LoadGoAnnotations ==
    /\ pc = "load_go_data"
    /\ go_annotations' = load_go_annotations(go_ontology, go_terms_exclusion_list, go_data)
    /\ pc' = "generate"
    /\ UNCHANGED <<go_data, evidence_groups_priority_list,
                   go_prepostfix_special_cases_sent_map, remove_parent_terms,
                   merge_num_terms_threshold, merge_min_distance_from_root, hash_order,
                   sentences_collection, raised, callVars>>
    /\ UNCHANGED <<textVars, pruneVars, mergeVars, ontoVars, walkVars>>
    /\ UNCHANGED <<coverVars, fetchVars, stackVars>>

\* sentences = generate_go_sentences(go_annotations, ...)
Generate ==
    /\ pc = "generate"
    /\ raised' = generate_raises(go_annotations, go_ontology,
                                 evidence_groups_priority_list,
                                 go_prepostfix_special_cases_sent_map,
                                 remove_parent_terms, merge_num_terms_threshold)
    /\ sentences_collection' =
            IF raised' THEN NoCollection
            ELSE generate_go_sentences(go_annotations, go_ontology,
                                       evidence_groups_priority_list,
                                       go_prepostfix_special_cases_sent_map,
                                       remove_parent_terms, merge_num_terms_threshold,
                                       merge_min_distance_from_root, hash_order)
    /\ evidence_groups_priority_list' =
            evidence_groups_list_after(go_annotations, evidence_groups_priority_list,
                                       go_prepostfix_special_cases_sent_map)
    /\ pc' = "generated"
    /\ UNCHANGED <<go_data, go_annotations, go_prepostfix_special_cases_sent_map,
                   remove_parent_terms, merge_num_terms_threshold,
                   merge_min_distance_from_root, hash_order, callVars>>
    /\ UNCHANGED <<textVars, pruneVars, mergeVars, ontoVars, walkVars>>
    /\ UNCHANGED <<coverVars, fetchVars, stackVars>>

\* sentences.get_sentences(go_aspect, go_ontology, keep_only_best_group,
\* merge_groups_with_same_prefix); on None the call is an AttributeError
GetSentences ==
    /\ pc = "generated"
    /\ ~raised
    /\ go_aspect' \in Aspects
    /\ keep_only_best_group' \in BOOLEAN
    /\ merge_groups_with_same_prefix' \in BOOLEAN
    /\ raised' = sentences_collection.returned_none
    /\ sentences' =
            IF sentences_collection.returned_none THEN <<>>
            ELSE get_sentences(sentences_collection, evidence_groups_priority_list,
                               go_aspect', go_ontology, keep_only_best_group',
                               merge_groups_with_same_prefix', remove_parent_terms,
                               merge_num_terms_threshold, merge_min_distance_from_root,
                               hash_order)
    /\ pc' = "got_sentences"
    /\ UNCHANGED <<go_data, go_annotations, evidence_groups_priority_list,
                   go_prepostfix_special_cases_sent_map, remove_parent_terms,
                   merge_num_terms_threshold, merge_min_distance_from_root, hash_order,
                   sentences_collection>>
    /\ UNCHANGED <<textVars, pruneVars, mergeVars, ontoVars, walkVars>>
    /\ UNCHANGED <<coverVars, fetchVars, stackVars>>

NextGenerate == LoadGoAnnotations \/ Generate

SpecGenerate == InitGenerate /\ [][NextGenerate]_vars

(***************************************************************************)
(* Specification of the retrieval of sentences: generate_go_sentences on   *)
(* annotations of known terms with evidence codes of the groups, then      *)
(* get_sentences on the returned value.                                    *)
(***************************************************************************)
InitSentences ==
    /\ pc = "generate"
    /\ go_ontology \in Ontologies(MaxSentNode)
    /\ go_data = <<>>
    /\ \E S \in SUBSET (1..MaxSentNode) :
        \E ev \in [S -> MappedEvidenceCodes], asp \in [S -> Aspects] :
            go_annotations = annotations_of(S, ev, asp)
    /\ go_terms_exclusion_list = {}
    /\ evidence_groups_priority_list = evidence_groups_priority_list_0
    /\ go_prepostfix_special_cases_sent_map \in {NoSpecialCases, SpecialCasesOfE}
    /\ remove_parent_terms \in BOOLEAN
    /\ merge_num_terms_threshold \in {0, MaxThreshold}
    /\ merge_min_distance_from_root \in {0, MaxGenDist}
    /\ hash_order \in {"ascending", "descending"}
    /\ sentences_collection = NoCollection
    /\ raised = FALSE
    /\ IdleCall /\ IdleTerms
    /\ IdlePrune /\ IdleMerge /\ IdleCompose /\ IdlePostfix /\ IdleWalk
    /\ IdleCover /\ IdleFetch /\ IdleStack

NextSentences == Generate \/ GetSentences

SpecSentences == InitSentences /\ [][NextSentences]_vars

(***************************************************************************)
(* Specification of find_set_covering: called on the subsets of the test   *)
(* with the values of the test, without values and with costs_wrong, and   *)
(* on lists of subsets of the same elements with weights, without weights  *)
(* and with a list of weights that is one too long.                        *)
(***************************************************************************)
InitCover ==
    /\ pc = "find_set_covering"
    /\ \/ /\ subsets = test_subsets
          /\ value \in {<<test_values>>, <<>>, <<costs_wrong>>}
       \/ \E n \in 1..MaxCoverSets :
            /\ \E sets \in [1..n -> (SUBSET Elements) \ {{}}] : subsets = subsets_of(sets)
            /\ \/ value = <<>>
               \/ \E v \in [1..n -> 1..MaxValue] : value = <<v>>
               \/ value = <<[i \in 1..(n + 1) |-> 1]>>
    /\ max_num_subsets \in 1..MaxNumSubsets
    /\ set_covering = <<>>
    /\ IdleFetch
    /\ IdleCompose /\ IdlePostfix /\ IdlePrune /\ IdleMerge /\ IdleOnto
    /\ IdleWalk /\ IdleGen /\ IdleStack

FindSetCovering ==
    /\ pc = "find_set_covering"
    /\ set_covering' = find_set_covering(subsets, value, max_num_subsets)
    /\ pc' = "set_covering_returned"
    /\ UNCHANGED <<subsets, value, max_num_subsets, fetchVars>>
    /\ UNCHANGED <<textVars, pruneVars, mergeVars, ontoVars, walkVars, genVars, stackVars>>

NextCover == FindSetCovering

SpecCover == InitCover /\ [][NextCover]_vars

(***************************************************************************)
(* Specification of get_annotations: the annotations of the gene, in the   *)
(* order of the file, each with the position of its line as reference; a   *)
(* priority list of evidence codes without repetition.                     *)
(***************************************************************************)
InitFetch ==
    /\ pc = "get_annotations"
    /\ \E n \in 0..MaxFetched :
        \E ids \in [1..n -> FetchTermIds], ev \in [1..n -> EvidenceCodes],
           obs \in [1..n -> BOOLEAN], q \in [1..n -> Qualifiers] :
            dataset = [i \in 1..n |->
                        [GO_ID |-> ids[i], Evidence |-> ev[i], Is_Obsolete |-> obs[i],
                         Qualifier |-> q[i], Reference |-> i]]
    /\ include_obsolete \in BOOLEAN
    /\ include_negative_results \in BOOLEAN
    /\ priority_list \in {<<>>} \cup DistinctListsUpTo(MappedEvidenceCodes, Cardinality(MappedEvidenceCodes))
    /\ selected_annotations = <<>>
    /\ IdleCover
    /\ IdleCompose /\ IdlePostfix /\ IdlePrune /\ IdleMerge /\ IdleOnto
    /\ IdleWalk /\ IdleGen /\ IdleStack

GetAnnotations ==
    /\ pc = "get_annotations"
    /\ selected_annotations' = get_annotations(dataset, include_obsolete,
                                               include_negative_results, priority_list)
    /\ pc' = "annotations_returned"
    /\ UNCHANGED <<dataset, include_obsolete, include_negative_results, priority_list,
                   coverVars>>
    /\ UNCHANGED <<textVars, pruneVars, mergeVars, ontoVars, walkVars, genVars, stackVars>>

NextFetch == GetAnnotations

SpecFetch == InitFetch /\ [][NextFetch]_vars

(***************************************************************************)
(* Specification of the aggregation with special cases: generate_go_       *)
(* sentences on annotations of distinct terms in any order, with no, one   *)
(* or two special cases of the group E, without removal of parents and     *)
(* without merge (the ontology is then not read).                          *)
(***************************************************************************)
InitSpecial ==
    /\ pc = "generate"
    /\ go_ontology = [t \in 1..MaxSpecialNode |-> {}]
    /\ go_data = <<>>
    /\ \E l \in {<<>>} \cup DistinctListsUpTo(1..MaxSpecialNode, MaxSpecialNode) :
        \E ev \in [1..Len(l) -> MappedEvidenceCodes], asp \in [1..Len(l) -> Aspects] :
            go_annotations = [i \in 1..Len(l) |->
                                [GO_ID |-> l[i], GO_Name |-> NameOf(l[i]),
                                 Evidence |-> ev[i], Aspect |-> asp[i]]]
    /\ go_terms_exclusion_list = {}
    /\ evidence_groups_priority_list = evidence_groups_priority_list_0
    /\ go_prepostfix_special_cases_sent_map
            \in {NoSpecialCases, SpecialCasesOfE, TwoSpecialCasesOfE}
    /\ remove_parent_terms = FALSE
    /\ merge_num_terms_threshold = 0
    /\ merge_min_distance_from_root = 0
    /\ hash_order = "ascending"
    /\ sentences_collection = NoCollection
    /\ raised = FALSE
    /\ IdleCall /\ IdleTerms
    /\ IdlePrune /\ IdleMerge /\ IdleCompose /\ IdlePostfix /\ IdleWalk
    /\ IdleCover /\ IdleFetch /\ IdleStack

NextSpecial == Generate

SpecSpecial == InitSpecial /\ [][NextSpecial]_vars

(***************************************************************************)
(* Specification of the four term reductions step by step.  A call of a    *)
(* recursive function is an entry of call_stack; a step makes the call on  *)
(* top and puts the calls it makes in its loop over the parents on the     *)
(* stack.  Every pass of the while loop of the merge is a step.  The       *)
(* interpreter runs the next statement of a call that has not returned:    *)
(* the steps are weakly fair.                                              *)
(***************************************************************************)
TermsOf(ids) ==
    /\ go_terms_names = [i \in 1..Len(ids) |-> NameOf(ids[i])]
    /\ term_ids_dict = DictOf(Range(ids))

InitTerminate ==
    /\ go_ontology \in Ontologies(MaxWalkNode)
    /\ go_terms_exclusion_list = {}
    /\ annotations = <<>>
    /\ parent_names = {}
    /\ term_ids_no_parents = {}
    /\ term_ids_no_parents_2 = {}
    /\ term_paths = EmptyPaths(go_ontology)
    /\ ancestor_paths = EmptyPaths(go_ontology)
    /\ term_paths_copy = {}
    /\ term_idx = 0
    /\ final_terms_set = {}
    /\ first_result = NoResult
    /\ name_idx = 0
    /\ \/ /\ pc = "parent_names_call"
          /\ go_id \in DOMAIN go_ontology
          /\ call_stack = <<go_id>>
          /\ TermsOf(<<>>)
          /\ terms_set = {}
          /\ min_distance_from_root = 0
          /\ min_number_of_terms = 0
       \/ /\ pc = "paths_call"
          /\ go_id \in DOMAIN go_ontology
          /\ call_stack = << <<go_id, <<>> >> >>
          /\ TermsOf(<<>>)
          /\ terms_set = {}
          /\ min_distance_from_root \in 0..MaxDist
          /\ min_number_of_terms = 0
       \/ /\ pc = "prune_loop"
          /\ go_id = 0
          /\ call_stack = <<>>
          /\ \E ids \in DistinctListsUpTo(1..MaxWalkNode, MaxInput) : TermsOf(ids)
          /\ terms_set = Range(go_terms_names)
          /\ min_distance_from_root = 0
          /\ min_number_of_terms = 0
       \/ /\ pc = "merge"
          /\ go_id = 0
          /\ call_stack = <<>>
          /\ \E ids \in DistinctListsUpTo(1..MaxWalkNode, MaxInput) : TermsOf(ids)
          /\ terms_set = {}
          /\ min_distance_from_root \in 0..MaxDist
          /\ min_number_of_terms \in 0..MaxMinTerms
    /\ IdleCompose /\ IdlePostfix /\ IdleWalk /\ IdleGen /\ IdleCover /\ IdleFetch

\* the calls get_all_go_parent_names(id) makes, line 243: one for every
\* parent that is not a root
calls_of_parents(id, onto) ==
    list_of({parent \in query_term(onto, id).parents :
                query_term(onto, parent).parents # {}}, "ascending")

\* one call of get_all_go_parent_names: the names of the parents that are
\* not roots are appended, the calls on them are made next
ParentNamesStep ==
    /\ pc \in {"parent_names_call", "prune_loop"}
    /\ call_stack # <<>>
    /\ LET calls == calls_of_parents(Head(call_stack), go_ontology)
       IN  /\ parent_names' = parent_names
                \cup {query_term(go_ontology, calls[i]).name : i \in 1..Len(calls)}
           /\ call_stack' = calls \o Tail(call_stack)
    /\ UNCHANGED <<pc, go_id, term_ids_no_parents, term_ids_no_parents_2, terms_set,
                   name_idx>>
    /\ UNCHANGED <<textVars, mergeVars, ontoVars, walkVars, genVars, coverVars, fetchVars>>

\* the outermost call of get_all_go_parent_names returns
ParentNamesReturn ==
    /\ pc = "parent_names_call"
    /\ call_stack = <<>>
    /\ pc' = "parent_names"
    /\ UNCHANGED <<pruneVars, stackVars>>
    /\ UNCHANGED <<textVars, mergeVars, ontoVars, walkVars, genVars, coverVars, fetchVars>>

\* get_term_ids_without_parents_from_terms_names, lines 293-295: the names
\* the call for the last term returned are discarded, the call for the next
\* term is made
PruneNextName ==
    /\ pc = "prune_loop"
    /\ call_stack = <<>>
    /\ name_idx < Len(go_terms_names)
    /\ terms_set' = terms_set \ parent_names
    /\ parent_names' = {}
    /\ name_idx' = name_idx + 1
    /\ call_stack' = <<term_ids_dict[go_terms_names[name_idx + 1]]>>
    /\ UNCHANGED <<pc, go_id, term_ids_no_parents, term_ids_no_parents_2>>
    /\ UNCHANGED <<textVars, mergeVars, ontoVars, walkVars, genVars, coverVars, fetchVars>>

\* line 296: the ids of the names that are left
PruneReturn ==
    /\ pc = "prune_loop"
    /\ call_stack = <<>>
    /\ name_idx = Len(go_terms_names)
    /\ terms_set' = terms_set \ parent_names
    /\ term_ids_no_parents' = {term_ids_dict[term] : term \in terms_set'}
    /\ pc' = "pruned_stepwise"
    /\ UNCHANGED <<go_id, parent_names, term_ids_no_parents_2, call_stack, name_idx>>
    /\ UNCHANGED <<textVars, mergeVars, ontoVars, walkVars, genVars, coverVars, fetchVars>>

\* one call of get_all_term_paths_to_root(go_id, previous_path), lines
\* 261-277: a call on a term with parents makes the calls on the parents and
\* returns their paths, every other call returns one path
PathsStep ==
    /\ pc = "paths_call"
    /\ call_stack # <<>>
    /\ LET term_properties == query_term(go_ontology, Head(call_stack)[1])
           previous_path == Head(call_stack)[2]
           new_path == Append(previous_path, term_properties.id)
           parents == list_of(term_properties.parents, "ascending")
       IN  IF term_properties.depth >= min_distance_from_root
           THEN IF term_properties.parents # {}
                THEN /\ call_stack' = [i \in 1..Len(parents) |-> <<parents[i], new_path>>]
                                        \o Tail(call_stack)
                     /\ UNCHANGED paths_to_return
                ELSE /\ call_stack' = Tail(call_stack)
                     /\ paths_to_return' = paths_to_return \cup {new_path}
           ELSE /\ call_stack' = Tail(call_stack)
                /\ paths_to_return' = paths_to_return \cup {previous_path}
    /\ UNCHANGED <<pc, relationship, go_parents, terms_set, name_idx>>
    /\ UNCHANGED <<textVars, pruneVars, mergeVars, ontoVars, genVars, coverVars, fetchVars>>

\* the outermost call of get_all_term_paths_to_root returns
PathsReturn ==
    /\ pc = "paths_call"
    /\ call_stack = <<>>
    /\ pc' = "paths_returned"
    /\ UNCHANGED <<walkVars, stackVars>>
    /\ UNCHANGED <<textVars, pruneVars, mergeVars, ontoVars, genVars, coverVars, fetchVars>>

NextTerminate ==
    \/ ParentNamesStep \/ ParentNamesReturn \/ PruneNextName \/ PruneReturn
    \/ PathsStep \/ PathsReturn
    \/ MergeIdentity \/ MergeBegin \/ PopPath \/ NextTerm \/ MergeReturn

SpecTerminate == InitTerminate /\ [][NextTerminate]_vars /\ WF_vars(NextTerminate)

(***************************************************************************)
(* Properties                                                              *)
(***************************************************************************)
\* English list grammar, written from the front of the list
RECURSIVE CommaTail(_)
CommaTail(l) ==
    IF Len(l) = 1 THEN <<"a", "n", "d", " ">> \o l[1]
    ELSE l[1] \o <<",", " ">> \o CommaTail(Tail(l))

EnglishList(l) ==
    CASE Len(l) = 1 -> l[1]
      [] Len(l) = 2 -> l[1] \o <<" ", "a", "n", "d", " ">> \o l[2]
      [] OTHER -> CommaTail(l)

EndsWith(s, tail) ==
    /\ Len(s) >= Len(tail)
    /\ SubSeq(s, Len(s) - Len(tail) + 1, Len(s)) = tail

\* the strict ancestors of a term: the least set closed under parents
RECURSIVE ParentsClosure(_, _)
ParentsClosure(onto, S) ==
    LET more == S \cup UNION {onto[x] : x \in S}
    IN  IF more = S THEN S ELSE ParentsClosure(onto, more)

StrictAncestors(onto, id) == ParentsClosure(onto, onto[id])

IsRoot(onto, id) == onto[id] = {}

InputIds == {term_ids_dict[go_terms_names[i]] : i \in 1..Len(go_terms_names)}

\* C1, as stated: the text is the prefix, a space, the terms in English list
\* grammar and the postfix directly after the last term
C1_PostfixDirectlyAfterLastTerm ==
    pc = "composed" =>
        text = prefix \o <<" ">> \o EnglishList(go_term_names) \o postfix

\* C1, amended: the text is the prefix, a space, the terms in English list
\* grammar (one term; two terms joined by " and "; three or more joined by
\* ", " with ", and " before the last) and then the postfix, which follows the
\* last term after one space when it is not empty and is absent when empty
C1_ComposeGrammar ==
    pc = "composed" =>
        text = prefix \o <<" ">> \o EnglishList(go_term_names)
                \o (IF postfix = <<>> THEN <<>> ELSE <<" ">> \o postfix)

C1_Witness ==
    /\ pc = "composed"
    /\ Len(go_term_names) >= 3
    /\ postfix # <<>>
    /\ prefix # <<>>

\* C2: for a non-empty term list the composed text is never empty, and it
\* ends with the postfix whenever the postfix is not empty
C2_NonEmptyEndsWithPostfix ==
    pc = "composed" =>
        /\ text # <<>>
        /\ postfix # <<>> => EndsWith(text, postfix)

C2_Witness ==
    /\ pc = "composed"
    /\ Len(go_term_names) = 1
    /\ Len(postfix) = MaxLen
    /\ prefix = <<>>

\* C3: merge_postfix_phrases of a list of one phrase is that phrase
C3_SinglePostfixUnchanged ==
    (pc = "postfix_merged" /\ Len(postfix_phrases) = 1) =>
        merged_postfix = postfix_phrases[1]

C3_Witness ==
    /\ pc = "postfix_merged"
    /\ Len(postfix_phrases) = 1
    /\ postfix_phrases[1] = <<"a", " ", "b">>

C5_EveryAncestorRemoved ==
    pc = "pruned" =>
        term_ids_no_parents =
            {t \in InputIds :
                ~\E u \in InputIds \ {t} : t \in StrictAncestors(go_ontology, u)}

\* C5, amended: the result is the input terms that are not a non-root strict
\* ancestor of another input term; a root term of the input is kept even
\* when it is an ancestor of another input term
C5_NonRootAncestorsRemoved ==
    pc = "pruned" =>
        term_ids_no_parents =
            {t \in InputIds :
                \/ IsRoot(go_ontology, t)
                \/ ~\E u \in InputIds \ {t} : t \in StrictAncestors(go_ontology, u)}

C5_Witness ==
    /\ pc = "pruned"
    /\ \E r, a, t \in InputIds :
        /\ IsRoot(go_ontology, r)
        /\ ~IsRoot(go_ontology, a)
        /\ {r, a} \subseteq StrictAncestors(go_ontology, t)
        /\ r \in term_ids_no_parents
        /\ a \notin term_ids_no_parents
        /\ t \in term_ids_no_parents

\* C6: with no more terms than min_number_of_terms the merge returns the ids
\* of the input terms, whatever min_distance_from_root
C6_MergeIdentityBelowThreshold ==
    (pc = "merged" /\ Len(go_terms_names) <= min_number_of_terms) =>
        final_terms_set = InputIds

C6_Witness ==
    /\ pc = "merged"
    /\ Len(go_terms_names) = 2
    /\ min_number_of_terms = 2
    /\ min_distance_from_root > 0
    /\ \E t \in InputIds : ~IsRoot(go_ontology, t)

\* C7: a second call on the same ontology, parameters and terms, with the
\* names in any order and the paths popped in any order, returns the ids
\* the first call returned
C7_MergeOrderIndependent ==
    (pc = "merged" /\ first_result.done) => final_terms_set = first_result.ids

C7_Witness ==
    /\ pc = "merged"
    /\ first_result.done
    /\ first_result.names # go_terms_names
    /\ Len(go_terms_names) > min_number_of_terms
    /\ Cardinality(final_terms_set) >= 2

\* C8: when merging is attempted, every input term has exactly one
\* representative, an ancestor or the term itself, in the returned set
C8_ExactlyOneRepresentative ==
    (pc = "merged" /\ Len(go_terms_names) > min_number_of_terms) =>
        \A t \in InputIds :
            Cardinality(final_terms_set
                            \cap ({t} \cup StrictAncestors(go_ontology, t))) = 1

\* C9: the merge returns no term of the exclusion list
C9_NoExcludedTermReturned ==
    pc = "merged" => final_terms_set \cap go_terms_exclusion_list = {}

\* C10: get_all_go_parent_names returns the names of the strict ancestors of
\* the term that are not root terms, and no other name
C10_ParentNamesAreNonRootAncestors ==
    pc = "parent_names" =>
        parent_names =
            {query_term(go_ontology, a).name :
                a \in {x \in StrictAncestors(go_ontology, go_id) : ~IsRoot(go_ontology, x)}}

C10_Witness ==
    /\ pc = "parent_names"
    /\ Cardinality(parent_names) >= 2
    /\ \E p \in go_ontology[go_id] : IsRoot(go_ontology, p)
    /\ \E a \in StrictAncestors(go_ontology, go_id) :
        a \notin go_ontology[go_id] /\ ~IsRoot(go_ontology, a)

\* the parents of a term by is_a and by part_of together
BothParents(onto, rel) == [t \in DOMAIN onto |-> onto[t] \cup rel[t]]

\* C11: every term that has parents and is reached from the starting term by
\* is_a and part_of edges is among the returned ancestor names, and is
\* removed by the pruning when it and the starting term are both in the input
C11_PartOfAncestorsFollowed ==
    LET both == BothParents(go_ontology, relationship)
    IN  /\ pc = "parent_names" =>
                \A a \in StrictAncestors(both, go_id) :
                    ~IsRoot(go_ontology, a) =>
                        query_term(go_ontology, a).name \in parent_names
        /\ pc = "pruned" =>
                \A t, a \in InputIds :
                    (a \in StrictAncestors(both, t) /\ ~IsRoot(go_ontology, a)) =>
                        a \notin term_ids_no_parents

\* C12, as stated: for a term without parents the paths are the one path
\* holding the term, whatever min_distance_from_root
C12_RootYieldsItself ==
    (pc = "paths_returned" /\ IsRoot(go_ontology, go_id)) =>
        paths_to_return = {<<go_id>>}

\* C12, amended: for a term without parents the paths are the one path
\* holding the term when min_distance_from_root is 0, and the one empty path
\* when min_distance_from_root is greater than 0 (the depth of the term is 0)
C12_RootYieldsItselfOrEmptyPath ==
    (pc = "paths_returned" /\ IsRoot(go_ontology, go_id)) =>
        paths_to_return =
            IF min_distance_from_root <= 0 THEN {<<go_id>>} ELSE {<<>>}

C12_Witness ==
    /\ pc = "paths_returned"
    /\ IsRoot(go_ontology, go_id)
    /\ min_distance_from_root = MaxDist
    /\ paths_to_return = {<<>>}
    /\ \E t \in DOMAIN go_ontology : go_id \in go_ontology[t]

\* the keys and the sentences of the collection generate_go_sentences returned
StoredKeys == Range(sentences_collection.keys)

Stored(key) == sentences_collection.sentences_map[key]

Generated == pc \in {"generated", "got_sentences"}

Returned == pc = "got_sentences" /\ ~raised

\* the groups of the priority list that have a sentence of the aspect, in
\* the order of the list
GroupsOfAspect(aspect) ==
    SelectSeq(evidence_groups_priority_list, LAMBDA eg : <<aspect, eg>> \in StoredKeys)

\* position of a key in the order set_sentence was called
InsertionIndex(key) ==
    CHOOSE i \in 1..Len(sentences_collection.keys) : sentences_collection.keys[i] = key

\* C13: without merging, get_sentences returns sentences of the requested
\* aspect only; without keep_only_best_group these are all the stored
\* sentences of the aspect, in the order of their groups in the priority
\* list; with keep_only_best_group it is the one sentence of the first group
\* of the list that has a sentence of the aspect, or nothing if no group has
C13_UnmergedInPriorityOrder ==
    (Returned /\ ~merge_groups_with_same_prefix) =>
        LET groups == GroupsOfAspect(go_aspect)
            stored == [i \in 1..Len(groups) |-> Stored(<<go_aspect, groups[i]>>)]
        IN  /\ \A i \in 1..Len(sentences) : sentences[i].go_aspect = go_aspect
            /\ ~keep_only_best_group =>
                /\ sentences = stored
                /\ \A key \in StoredKeys :
                    key[1] = go_aspect => Stored(key) \in Range(sentences)
            /\ keep_only_best_group =>
                sentences = IF Len(stored) = 0 THEN <<>> ELSE <<stored[1]>>

C13_Witness ==
    /\ Returned
    /\ ~merge_groups_with_same_prefix
    /\ ~keep_only_best_group
    /\ Len(sentences) >= 2
    /\ InsertionIndex(<<go_aspect, sentences[2].evidence_group>>)
            < InsertionIndex(<<go_aspect, sentences[1].evidence_group>>)
    /\ \E key \in StoredKeys : key[1] # go_aspect

\* the groups of the priority list that have a sentence of the aspect and
\* the prefix
GroupsWithPrefix(aspect, pre) ==
    SelectSeq(GroupsOfAspect(aspect),
              LAMBDA eg : go_prepostfix_sentences_map[<<aspect, eg>>][1] = pre)

\* the sentence is the union of the stored sentences of the groups
UnionOfGroups(sentence, groups) ==
    /\ Range(sentence.terms) =
            UNION {Range(Stored(<<go_aspect, groups[i]>>).terms) : i \in 1..Len(groups)}
    /\ sentence.evidence_group = JoinStr(<<",", " ">>, groups)

NoReduction == ~remove_parent_terms /\ merge_num_terms_threshold = 0

Composed(sentence) ==
    sentence.text = compose_go_sentence(sentence.prefix, sentence.terms, sentence.postfix)

\* C15: the text of every sentence of the collection and of every sentence
\* returned by get_sentences, merged or not, is compose_go_sentence of the
\* prefix, the terms in their order and the postfix of that sentence
C15_TextIsComposed ==
    Generated =>
        /\ \A key \in StoredKeys : Composed(Stored(key))
        /\ \A i \in 1..Len(sentences) : Composed(sentences[i])

C15_Witness ==
    /\ Returned
    /\ merge_groups_with_same_prefix
    /\ hash_order = "descending"
    /\ \E i \in 1..Len(sentences) :
        /\ Len(sentences[i].terms) >= 2
        /\ Len(GroupsWithPrefix(go_aspect, sentences[i].prefix)) >= 2
        /\ sentences[i].postfix \notin {Stored(key).postfix : key \in StoredKeys}

\* C16: after generate_go_sentences has returned, the caller's list of
\* evidence groups is as it was before the call
C16_PriorityListUnchanged ==
    Generated => evidence_groups_priority_list = evidence_groups_priority_list_0

\* the annotations whose evidence code has a group
WithGroup(annots) ==
    SelectSeq(annots, LAMBDA a : a.Evidence \in DOMAIN evidence_codes_groups_map)

\* C17: when an annotation with an evidence code of a group remains, the
\* call does not raise and returns the collection, and leaves the priority
\* list, that the call on the annotations without those of evidence codes
\* that have no group returns and leaves
C17_UnknownEvidenceDropped ==
    (Generated /\ Len(WithGroup(go_annotations)) > 0) =>
        /\ pc = "generated" => ~raised
        /\ sentences_collection =
                generate_go_sentences(WithGroup(go_annotations), go_ontology,
                                      evidence_groups_priority_list_0,
                                      go_prepostfix_special_cases_sent_map,
                                      remove_parent_terms, merge_num_terms_threshold,
                                      merge_min_distance_from_root, hash_order)
        /\ evidence_groups_priority_list =
                evidence_groups_list_after(WithGroup(go_annotations),
                                           evidence_groups_priority_list_0,
                                           go_prepostfix_special_cases_sent_map)

C17_Witness ==
    /\ pc = "generated"
    /\ \E i, j \in 1..Len(go_annotations) :
        /\ go_annotations[i].Evidence \notin DOMAIN evidence_codes_groups_map
        /\ go_annotations[j].Evidence \in DOMAIN evidence_codes_groups_map
        /\ go_annotations[i].Aspect = go_annotations[j].Aspect
    /\ StoredKeys # {}

\* the annotations of the file whose term the ontology knows
OfKnownTerms(data) == SelectSeq(data, LAMBDA a : a.GO_ID \in DOMAIN go_ontology)

Buckets ==
    go_terms_groups(go_annotations, 1,
        [keys |-> <<>>, groups |-> EmptyDict,
         priority |-> evidence_groups_priority_list_0],
        go_prepostfix_special_cases_sent_map)

ReducedNames(key) ==
    reduced_terms(Buckets.groups[key], go_ontology, remove_parent_terms,
                  merge_num_terms_threshold, merge_min_distance_from_root,
                  hash_order).names

\* C19: the generation does not raise; the collection has a sentence for
\* exactly the groups whose terms are not empty after the reduction, with
\* these terms; no stored and no returned sentence has an empty list of terms
C19_NoSentenceForEmptyTerms ==
    (Generated /\ Len(go_annotations) > 0) =>
        /\ pc = "generated" => ~raised
        /\ \A key \in Range(Buckets.keys) :
            IF Len(ReducedNames(key)) = 0
            THEN key \notin StoredKeys
            ELSE key \in StoredKeys /\ Stored(key).terms = ReducedNames(key)
        /\ StoredKeys \subseteq Range(Buckets.keys)
        /\ \A key \in StoredKeys : Len(Stored(key).terms) > 0
        /\ \A i \in 1..Len(sentences) : Len(sentences[i].terms) > 0

C19_Witness ==
    /\ pc = "generated"
    /\ \E key \in Range(Buckets.keys) : key \notin StoredKeys
    /\ StoredKeys # {}

\* C20: generate_go_sentences returns a collection, on which get_sentences
\* can be called, for every list of annotations
C20_AlwaysACollection ==
    pc = "generated" => ~sentences_collection.returned_none

\* the ids of the selected subsets
SelectedIds == {set_covering[1][k][1] : k \in 1..Len(set_covering[1])}

CoverReturned == pc = "set_covering_returned"

ValueMismatch == Len(value) > 0 /\ Len(value[1]) # Len(subsets)

\* C21: find_set_covering returns None, and no selection, when a value is
\* given whose length is not the number of subsets, whatever max_num_subsets
C21_MismatchedValueIsNone ==
    (CoverReturned /\ ValueMismatch) => set_covering = <<>>

C21_Witness ==
    /\ CoverReturned
    /\ subsets = test_subsets
    /\ value = <<costs_wrong>>
    /\ max_num_subsets = MaxNumSubsets
    /\ set_covering = <<>>

\* C22: on the subsets and the values of the test with max_num_subsets = 3
\* the selection is the subsets 2 and 6
C22_TestSelectsTwoAndSix ==
    (CoverReturned /\ subsets = test_subsets /\ value = <<test_values>>
        /\ max_num_subsets = 3) =>
        /\ Len(set_covering) = 1
        /\ SelectedIds = {2, 6}

C22_Witness ==
    /\ CoverReturned
    /\ subsets = test_subsets
    /\ value = <<test_values>>
    /\ max_num_subsets = 3
    /\ set_covering = << <<test_subsets[2], test_subsets[6]>> >>

\* the elements the first k selected subsets cover
CoveredBy(k) == UNION {set_covering[1][j][3] : j \in 1..k}

\* C23: without values the selection stops as soon as every element is
\* covered: no subset is taken after the ones that cover everything, a
\* subset that covers everything makes a selection of one subset, and on
\* the subsets of the test with max_num_subsets = 3 the selection is subset 1
C23_UnweightedStopsWhenCovered ==
    (CoverReturned /\ value = <<>>) =>
        /\ Len(set_covering) = 1
        /\ \A k \in 1..(Len(set_covering[1]) - 1) : CoveredBy(k) # universe_of(subsets)
        /\ (\E i \in 1..Len(subsets) : subsets[i][3] = universe_of(subsets)) =>
                Len(set_covering[1]) = 1
        /\ (subsets = test_subsets /\ max_num_subsets = 3) =>
                set_covering = << <<test_subsets[1]>> >>

C23_Witness ==
    /\ CoverReturned
    /\ value = <<>>
    /\ subsets = test_subsets
    /\ max_num_subsets = 3
    /\ set_covering = << <<test_subsets[1]>> >>

\* the annotation may be returned: its evidence code is in the priority
\* list, and it is not obsolete, and not negative, unless these are included
Eligible(a) ==
    /\ a.Evidence \in Range(priority_list)
    /\ include_obsolete \/ ~a.Is_Obsolete
    /\ include_negative_results \/ "NOT" \notin Range(a.Qualifier)

\* the position of an evidence code in priority_list
PriorityPosition(code) == SetMin({i \in 1..Len(priority_list) : priority_list[i] = code})

\* C24: get_annotations returns, for every term of an eligible annotation
\* of the gene, one annotation: an eligible one of that term, of the
\* evidence code that comes earliest in priority_list among them, and the
\* first of the file among those of that code; it returns nothing else
C24_OneBestAnnotationPerTerm ==
    pc = "annotations_returned" =>
        /\ \A i, j \in 1..Len(selected_annotations) :
            i # j => selected_annotations[i].GO_ID # selected_annotations[j].GO_ID
        /\ \A r \in Range(selected_annotations) :
            /\ r \in Range(dataset)
            /\ Eligible(r)
            /\ \A a \in Range(dataset) :
                (Eligible(a) /\ a.GO_ID = r.GO_ID) =>
                    \/ PriorityPosition(r.Evidence) < PriorityPosition(a.Evidence)
                    \/ /\ PriorityPosition(r.Evidence) = PriorityPosition(a.Evidence)
                       /\ r.Reference <= a.Reference
        /\ \A a \in Range(dataset) :
            Eligible(a) => \E r \in Range(selected_annotations) : r.GO_ID = a.GO_ID

C24_Witness ==
    /\ pc = "annotations_returned"
    /\ Len(priority_list) = 2
    /\ Len(dataset) = 2
    /\ Eligible(dataset[1]) /\ Eligible(dataset[2])
    /\ dataset[1].GO_ID = dataset[2].GO_ID
    /\ PriorityPosition(dataset[2].Evidence) < PriorityPosition(dataset[1].Evidence)
    /\ selected_annotations = <<dataset[2]>>

\* the paths of the input terms by their outermost ancestor, as step 1
\* records them
GroupOf(r) ==
    step1_ancestor_paths(go_terms_names, term_ids_dict, go_ontology,
                         min_distance_from_root)[r]

\* the paths of the group have the same k last terms, none of them the
\* first term of a path
AgreeInward(paths, k) ==
    \A x, y \in paths :
        /\ Len(x) >= k + 1
        /\ \A j \in 1..k : x[Len(x) - j + 1] = y[Len(y) - j + 1]

\* the deepest term common to every path of the group, walking inward
\* from the outermost ancestor
DeepestCommon(paths) ==
    LET k == SetMax({j \in 1..MaxMergeNode : AgreeInward(paths, j)})
        x == CHOOSE x \in paths : TRUE
    IN  x[Len(x) - k + 1]

\* C25: when merging is attempted, the returned terms are, for every group
\* of paths of the same outermost ancestor, the deepest term common to
\* every path of the group
C25_DeepestCommonAncestorSelected ==
    (pc = "merged" /\ merge_attempted(go_terms_names, min_number_of_terms)) =>
        final_terms_set =
            {DeepestCommon(GroupOf(r)) : r \in {a \in DOMAIN go_ontology : GroupOf(a) # {}}}

\* an upward chain from the term: it starts at the term, every next term is
\* a parent of the one before, every term is at min_distance_from_root or
\* deeper, and it stops at a root or before a parent that is less deep
UpwardChain(p) ==
    /\ Len(p) >= 1
    /\ p[1] = go_id
    /\ \A i \in 1..(Len(p) - 1) : p[i + 1] \in go_ontology[p[i]]
    /\ \A i \in 1..Len(p) : Depth(go_ontology, p[i]) >= min_distance_from_root
    /\ \/ IsRoot(go_ontology, p[Len(p)])
       \/ \E parent \in go_ontology[p[Len(p)]] :
            Depth(go_ontology, parent) < min_distance_from_root

\* the parents of a term have smaller numbers than the term, so a chain is
\* a set of terms in descending order
UpwardChains ==
    {p \in {list_of(S, "descending") : S \in SUBSET DOMAIN go_ontology} : UpwardChain(p)}

\* C26, as stated: the returned set is not empty and its paths are the
\* upward chains from the term, one for every chain
C26_PathsAreUpwardChains ==
    pc = "paths_returned" =>
        /\ paths_to_return # {}
        /\ paths_to_return = UpwardChains

\* C26, amended: the same for a term at min_distance_from_root or deeper;
\* for a term less deep the returned set holds the empty path alone
C26_PathsAreUpwardChainsOrEmptyPath ==
    pc = "paths_returned" =>
        /\ paths_to_return # {}
        /\ paths_to_return =
                IF Depth(go_ontology, go_id) >= min_distance_from_root
                THEN UpwardChains
                ELSE {<<>>}

C26_Witness ==
    /\ pc = "paths_returned"
    /\ min_distance_from_root > 0
    /\ Depth(go_ontology, go_id) > min_distance_from_root
    /\ Cardinality(paths_to_return) >= 2
    /\ \E p \in paths_to_return : ~IsRoot(go_ontology, p[Len(p)])
    /\ \E p, q \in paths_to_return : Len(p) # Len(q)

\* the longest text every phrase begins with, and ends with
CommonLeading(phrases) ==
    LET n == SetMax({n \in 0..MaxPhraseLen :
                        \A k \in 1..Len(phrases) :
                            /\ Len(phrases[k]) >= n
                            /\ SubSeq(phrases[k], 1, n) = SubSeq(phrases[1], 1, n)})
    IN  SubSeq(phrases[1], 1, n)

CommonTrailing(phrases) ==
    LET n == SetMax({n \in 0..MaxPhraseLen :
                        \A k \in 1..Len(phrases) :
                            /\ Len(phrases[k]) >= n
                            /\ SubSeq(phrases[k], Len(phrases[k]) - n + 1, Len(phrases[k]))
                                = SubSeq(phrases[1], Len(phrases[1]) - n + 1,
                                         Len(phrases[1]))})
    IN  SubSeq(phrases[1], Len(phrases[1]) - n + 1, Len(phrases[1]))

\* the phrase without the leading part at its start and the trailing part
\* at its end
Middle(phrase, leading, trailing) ==
    SubSeq(phrase, Len(leading) + 1, Len(phrase) - Len(trailing))

\* C27: for two or more phrases the merged phrase is the common leading
\* part, the middles of the phrases in their order, joined as a list, and
\* the common trailing part, in the plural when it is one word
C27_LeadingMiddlesTrailing ==
    (pc = "postfix_merged" /\ Len(postfix_phrases) >= 2) =>
        LET leading == CommonLeading(postfix_phrases)
            trailing == CommonTrailing(postfix_phrases)
            middles == [k \in 1..Len(postfix_phrases) |->
                            Middle(postfix_phrases[k], leading, trailing)]
            trailing1 == IF SplitCount(Strip(trailing)) = 1 THEN Plural(trailing)
                         ELSE trailing
        IN  merged_postfix =
                leading
                \o (IF Len(middles) > 2
                    THEN JoinStr(<<",", " ">>, SubSeq(middles, 1, Len(middles) - 1))
                            \o <<",", " ", "a", "n", "d", " ">> \o middles[Len(middles)]
                    ELSE JoinStr(<<" ", "a", "n", "d", " ">>, middles))
                \o trailing1

(***************************************************************************)
(* Properties of the aggregation with special cases                        *)
(***************************************************************************)
OriginalGroups == Range(evidence_groups_priority_list_0)

\* the group a sub-group was derived from: the sub-group is group + str(id)
ParentOf(sub) == SubSeq(sub, 1, Len(sub) - 1)

\* the special cases of the group of an annotation whose pattern the name
\* of the term begins with, as positions of the list
MatchingCases(a) ==
    LET key == <<a.Aspect, evidence_codes_groups_map[a.Evidence]>>
        cases == IF key \in DOMAIN go_prepostfix_special_cases_sent_map
                 THEN go_prepostfix_special_cases_sent_map[key] ELSE <<>>
    IN  {i \in 1..Len(cases) :
            /\ Len(cases[i][2]) <= Len(a.GO_Name)
            /\ \A c \in 1..Len(cases[i][2]) : cases[i][2][c] = a.GO_Name[c]}

\* the group the annotation is redirected to: the sub-group of the first
\* matching special case, or its own group
RedirectedGroup(a) ==
    LET group == evidence_codes_groups_map[a.Evidence]
        cases == go_prepostfix_special_cases_sent_map[<<a.Aspect, group>>]
    IN  IF MatchingCases(a) = {} THEN group
        ELSE group \o <<ToString(cases[SetMin(MatchingCases(a))][1])>>

\* the position of the first annotation redirected to the sub-group
FirstEncounter(sub) ==
    SetMin({i \in 1..Len(go_annotations) : RedirectedGroup(go_annotations[i]) = sub})

AnnotationsRedirected ==
    /\ \A i \in 1..Len(go_annotations) :
        LET a == go_annotations[i]
            key == <<a.Aspect, RedirectedGroup(a)>>
        IN  /\ key \in StoredKeys
            /\ a.GO_Name \in Range(Stored(key).terms)
            /\ RedirectedGroup(a) \in Range(evidence_groups_priority_list)
    /\ \A i \in 1..Len(evidence_groups_priority_list) :
        evidence_groups_priority_list[i] \notin OriginalGroups
            => \E j \in 1..Len(go_annotations) :
                    RedirectedGroup(go_annotations[j]) = evidence_groups_priority_list[i]

EachGroupOnce ==
    \A i, j \in 1..Len(evidence_groups_priority_list) :
        evidence_groups_priority_list[i] = evidence_groups_priority_list[j] => i = j

OriginalOrderKept ==
    SelectSeq(evidence_groups_priority_list, LAMBDA g : g \in OriginalGroups)
        = evidence_groups_priority_list_0

Terminated == pc \in {"parent_names", "paths_returned", "pruned_stepwise", "merged"}

\* what the walks have when they return is what the functions return
ReturnedValues ==
    /\ pc = "parent_names" => parent_names = get_all_go_parent_names(go_id, go_ontology)
    /\ pc = "paths_returned" =>
        paths_to_return = get_all_term_paths_to_root(go_id, go_ontology,
                                                     min_distance_from_root, <<>>)
    /\ pc = "pruned_stepwise" =>
        term_ids_no_parents = get_term_ids_without_parents_from_terms_names(
                                    go_terms_names, term_ids_dict, go_ontology)

\* a pass of the while loop of the merge takes at least one path from the
\* remaining paths of the current term, and the work list is among them
WorkListDecreases ==
    (pc = "merge_loop" /\ term_paths_copy # {}) =>
        LET go_term_id == term_ids_dict[go_terms_names[term_idx]]
        IN  /\ term_paths'[go_term_id] \subseteq term_paths[go_term_id]
            /\ term_paths'[go_term_id] # term_paths[go_term_id]
            /\ term_paths_copy' \subseteq term_paths'[go_term_id]

\* C29: on every acyclic ontology and every list of terms the ancestor
\* enumeration, the enumeration of the paths to the roots, the parent
\* pruning and the common-ancestor merge return, whatever path the merge
\* pops from its work list: every pass of its loop takes at least the
\* popped path from the remaining paths of the current term.
C29_ReductionsTerminate ==
    /\ <>Terminated
    /\ []ReturnedValues
    /\ [][WorkListDecreases]_vars

\* a merge has returned after passes of its loop for two terms, one of them
\* with two paths to pop in either order
C29_Witness ==
    /\ pc = "merged"
    /\ term_idx >= 2
    /\ Cardinality(final_terms_set) >= 2
    /\ \E i \in 1..Len(go_terms_names) :
        Cardinality({path \in get_all_term_paths_to_root(
                                    term_ids_dict[go_terms_names[i]], go_ontology,
                                    min_distance_from_root, <<>>) : Len(path) > 1}) >= 2

(***************************************************************************)
(* Properties of the term-id map of a sentence                             *)
(***************************************************************************)
\* the keys of the map are the terms of the sentence, each with the id the
\* ontology has for the term of that name
TermIdsOfTerms(sentence) ==
    /\ DOMAIN sentence.term_ids_dict = Range(sentence.terms)
    /\ \A name \in DOMAIN sentence.term_ids_dict :
        /\ sentence.term_ids_dict[name] \in DOMAIN go_ontology
        /\ query_term(go_ontology, sentence.term_ids_dict[name]).name = name

\* C30: the term-id map of every sentence generation stores and of every
\* sentence get_sentences returns, in any mode, has the terms of the
\* sentence as its keys and maps each to the id of the term of that name.
C30_TermIdsMatchTerms ==
    /\ (Generated /\ ~raised) => \A key \in StoredKeys : TermIdsOfTerms(Stored(key))
    /\ Returned => \A i \in 1..Len(sentences) : TermIdsOfTerms(sentences[i])

====
